---- MODULE Spec2Model ----
(***************************************************************************)
(* A model of the Tenet rules VM (pkg/tenet): the expression resolver and  *)
(* operator table, the temporal router, the validator, the evaluation      *)
(* pipeline Run and the replay verifier Verify.                            *)
(*                                                                         *)
(* JSON values are tagged records, expressions are trees of records, a     *)
(* document is a record of finite maps.  The Go engine's mutable fields    *)
(* (schema, errors, fieldsSet) are the state of the pipeline; the two      *)
(* fields the resolver saves and restores around a call (currentElement,   *)
(* derivedInProgress) travel with the resolver's context record.           *)
(***************************************************************************)
EXTENDS Integers, Sequences, FiniteSets, TLC

VARIABLES
    pc,          \* position of Run in its pipeline
    input,       \* the document handed to Run (after unmarshal)
    date,        \* the effective instant handed to Run
    schema,      \* engine.schema: the working document
    errors,      \* engine.errors
    fieldsSet,   \* engine.fieldsSet: field -> id of the rule that last set it
    ruleIdx,     \* evaluateLogicTree: position of its loop in logic_tree
    rulePass,    \* what the loop did at each position in this Run (history)
    runs,        \* number of completed Run calls on this document lineage
    firstOut,    \* the output of the first Run (history)
    vpc,         \* position of Verify
    base,        \* Verify: baseSchemaJson
    completed,   \* Verify: newJson (the submitted document)
    maxIterations, \* Verify: iteration cap
    iteration,   \* Verify: loop counter
    currentJson, \* Verify: the replay document
    previousVisibleSet, \* Verify: joined visible ids of the previous iteration
    prevResult,  \* Verify: the previous iteration's Run result (history)
    resultSchema,\* Verify: this iteration's Run result
    calls,       \* Verify: number of Run calls made (history)
    now,         \* Verify: what time.Now() returns
    submission,  \* Verify: how the submitted document was made (history)
    vr,          \* Verify: the VerifyResult returned
    lpc,         \* lint: position of the call
    lintIn,      \* lint: the document analysed
    lintOut      \* lint: the LintResult returned

vars == <<pc, input, date, schema, errors, fieldsSet, ruleIdx, rulePass,
          runs, firstOut,
          vpc, base, completed, maxIterations, iteration, currentJson,
          previousVisibleSet, prevResult, resultSchema, calls, now,
          submission, vr, lpc, lintIn, lintOut>>

lintVars == <<lpc, lintIn, lintOut>>

-----------------------------------------------------------------------------
(* Values: the closed sum of JSON values the engine handles.                *)

Null == [t |-> "null", n |-> 0, s |-> "", a |-> <<>>]
Bool(b) == [t |-> "bool", n |-> IF b THEN 1 ELSE 0, s |-> "", a |-> <<>>]
Num(k) == [t |-> "num", n |-> k, s |-> "", a |-> <<>>]
Str(x) == [t |-> "str", n |-> 0, s |-> x, a |-> <<>>]
Arr(items) == [t |-> "arr", n |-> 0, s |-> "", a |-> items]

IsNil(v) == v.t = "null"

(* toFloat: only numbers convert; strings are never converted.             *)
toFloatOk(v) == v.t = "num"

(* isSlice *)
isSlice(v) == v.t = "arr"

(* fmt.Sprintf("%v", v) on the values of the model.                        *)
RECURSIVE FmtV(_)
RECURSIVE FmtItems(_)
FmtItems(items) ==
    IF items = <<>> THEN ""
    ELSE IF Len(items) = 1 THEN FmtV(items[1])
    ELSE FmtV(items[1]) \o " " \o FmtItems(Tail(items))
FmtV(v) ==
    CASE v.t = "null" -> "<nil>"
      [] v.t = "bool" -> IF v.n = 1 THEN "true" ELSE "false"
      [] v.t = "num"  -> ToString(v.n)
      [] v.t = "str"  -> v.s
      [] OTHER        -> "[" \o FmtItems(v.a) \o "]"

(* compareEqual: nil == nil; numeric when both are numbers; otherwise the  *)
(* two %v renderings are compared.                                         *)
compareEqual(a, b) ==
    IF IsNil(a) /\ IsNil(b) THEN TRUE
    ELSE IF IsNil(a) \/ IsNil(b) THEN FALSE
    ELSE IF toFloatOk(a) /\ toFloatOk(b) THEN a.n = b.n
    ELSE FmtV(a) = FmtV(b)

(* isTruthy *)
isTruthy(v) ==
    CASE v.t = "null" -> FALSE
      [] v.t = "bool" -> v.n = 1
      [] v.t = "num"  -> v.n # 0
      [] v.t = "str"  -> v.s # ""
      [] OTHER        -> Len(v.a) > 0

(* parseDate: the date strings of the model and the day each denotes; any  *)
(* other string, and any non-string, does not parse.                       *)
DateTable == [s \in {"2024-01-01", "2024-12-31", "2025-01-01", "2025-06-01"} |->
                 CASE s = "2024-01-01" -> 1
                   [] s = "2024-12-31" -> 2
                   [] s = "2025-01-01" -> 3
                   [] OTHER            -> 4]
parseDateOk(v) == v.t = "str" /\ v.s \in DOMAIN DateTable
parseDateOf(v) == DateTable[v.s]

(* inferType *)
inferType(v) ==
    CASE v.t = "str"  -> "string"
      [] v.t = "num"  -> "number"
      [] v.t = "bool" -> "boolean"
      [] OTHER        -> "string"

-----------------------------------------------------------------------------
(* Expressions: JSON-logic nodes.  A literal carries its value; "arr" is   *)
(* an array literal whose elements are nodes; every other op is a one-key  *)
(* object {op: args}.  A var node carries its path split at the dots       *)
(* (<<>> is the empty path "").                                            *)

Lit(v) == [op |-> "lit", v |-> v, path |-> <<>>, args |-> <<>>]
Var(p) == [op |-> "var", v |-> Null, path |-> p, args |-> <<>>]
Op(o, as) == [op |-> o, v |-> Null, path |-> <<>>, args |-> as]
NoExpr == [op |-> "nil", v |-> Null, path |-> <<>>, args |-> <<>>]

(* ValidationError *)
Err(f, r, k, m, l) ==
    [field_id |-> f, rule_id |-> r, kind |-> k, message |-> m, law_ref |-> l]

(* addError on a resolver context *)
addErrorC(c, f, r, k, m, l) ==
    [c EXCEPT !.errors = Append(@, Err(f, r, k, m, l))]

(* The resolver context: engine.errors, engine.currentElement and          *)
(* engine.derivedInProgress; panic is set once a nil pointer has been      *)
(* dereferenced (the Go runtime then unwinds to the deferred recover, so   *)
(* nothing computed after it is kept).                                     *)
Ctx(errs) == [errors |-> errs, cur |-> Null, inProgress |-> {}, panic |-> FALSE]

HasDerived(S, name) == name \in DOMAIN S.derived

(* accessPath: the values of the model hold no objects, so a non-empty     *)
(* remainder of a path reaches nothing.                                    *)
accessPath(value, parts) == IF parts = <<>> THEN value ELSE Null

RECURSIVE resolve(_, _, _)
RECURSIVE resolveElems(_, _, _)
RECURSIVE resolveArgs(_, _, _, _)
RECURSIVE executeOperator(_, _, _, _)
RECURSIVE getVar(_, _, _)
RECURSIVE opAnd(_, _, _)
RECURSIVE opOr(_, _, _)
RECURSIVE opIf(_, _, _)
RECURSIVE iterate(_, _, _, _, _)

(* resolve: returns the value and the context after the call.              *)
resolve(node, S, c) ==
    CASE node.op = "nil" -> [v |-> Null, c |-> c]
      [] node.op = "lit" -> [v |-> node.v, c |-> c]
      [] node.op = "arr" ->
            LET r == resolveElems(node.args, S, c)
            IN  [v |-> Arr(r.vs), c |-> r.c]
      [] OTHER -> executeOperator(node.op, node, S, c)

(* the loop of resolve's []any case *)
resolveElems(elems, S, c) ==
    IF elems = <<>> THEN [vs |-> <<>>, c |-> c]
    ELSE LET h == resolve(elems[1], S, c)
             t == resolveElems(Tail(elems), S, h.c)
         IN  [vs |-> <<h.v>> \o t.vs, c |-> t.c]

(* resolveArgs: the first `expected` arguments, missing ones nil.          *)
resolveArgs(args, expected, S, c) ==
    IF expected = 0 THEN [vs |-> <<>>, c |-> c]
    ELSE IF args = <<>> THEN
         LET t == resolveArgs(<<>>, expected - 1, S, c)
         IN  [vs |-> <<Null>> \o t.vs, c |-> t.c]
    ELSE LET h == resolve(args[1], S, c)
             t == resolveArgs(Tail(args), expected - 1, S, h.c)
         IN  [vs |-> <<h.v>> \o t.vs, c |-> t.c]

(* getVar: derived names first (re-evaluated under the in-progress guard), *)
(* then definitions (def.Value on a nil *Definition panics); an unknown    *)
(* root warns unless an iteration element is current.                      *)
getVar(path, S, c) ==
    IF path = <<>> THEN [v |-> c.cur, c |-> c]
    ELSE IF HasDerived(S, path[1]) THEN
        IF path[1] \in c.inProgress THEN
            [v |-> Null,
             c |-> addErrorC(c, "", "", "cycle_detected",
                      "Circular dependency detected in derived field '"
                         \o path[1] \o "'", "")]
        ELSE
            LET r == resolve(S.derived[path[1]],
                             S, [c EXCEPT !.inProgress = @ \cup {path[1]}])
            IN  [v |-> accessPath(r.v, Tail(path)),
                 c |-> [r.c EXCEPT !.inProgress = @ \ {path[1]}]]
    ELSE IF path[1] \in DOMAIN S.definitions THEN
        IF S.definitions[path[1]].nil
        THEN [v |-> Null, c |-> [c EXCEPT !.panic = TRUE]]
        ELSE [v |-> accessPath(S.definitions[path[1]].value, Tail(path)), c |-> c]
    ELSE IF IsNil(c.cur) THEN
        [v |-> Null,
         c |-> addErrorC(c, "", "", "runtime_warning",
                  "Undefined variable '" \o path[1] \o "' in logic expression", "")]
    ELSE [v |-> Null, c |-> c]

(* opAnd *)
opAnd(args, S, c) ==
    IF args = <<>> THEN [v |-> Bool(TRUE), c |-> c]
    ELSE LET h == resolve(args[1], S, c)
         IN  IF ~isTruthy(h.v) THEN [v |-> Bool(FALSE), c |-> h.c]
             ELSE opAnd(Tail(args), S, h.c)

(* opOr *)
opOr(args, S, c) ==
    IF args = <<>> THEN [v |-> Bool(FALSE), c |-> c]
    ELSE LET h == resolve(args[1], S, c)
         IN  IF isTruthy(h.v) THEN [v |-> Bool(TRUE), c |-> h.c]
             ELSE opOr(Tail(args), S, h.c)

(* opIf: the pairs (condition, then) in turn, then the trailing else.      *)
opIf(args, S, c) ==
    IF Len(args) >= 2 THEN
        LET h == resolve(args[1], S, c)
        IN  IF isTruthy(h.v) THEN resolve(args[2], S, h.c)
            ELSE opIf(Tail(Tail(args)), S, h.c)
    ELSE IF Len(args) = 1 THEN resolve(args[1], S, c)
    ELSE [v |-> Null, c |-> c]

RECURSIVE iterateNoRestore(_, _, _, _, _)
(* the loops of opSome, opAll and opNone with an evalWithContext that      *)
(* leaves the element it set in place                                      *)
iterateNoRestore(items, cond, stop, S, c) ==
    IF items = <<>> THEN [v |-> FALSE, c |-> c]
    ELSE LET r == resolve(cond, S, [c EXCEPT !.cur = items[1]])
         IN  IF isTruthy(r.v) = stop THEN [v |-> TRUE, c |-> r.c]
             ELSE iterateNoRestore(Tail(items), cond, stop, S, r.c)

(* evalWithContext inside the loops of opSome, opAll and opNone: visits    *)
(* the items in turn and stops at the first whose predicate equals `stop`; *)
(* returns whether it stopped.                                             *)
iterate(items, cond, stop, S, c) ==
    IF items = <<>> THEN [v |-> FALSE, c |-> c]
    ELSE LET oldContext == c.cur
             r == resolve(cond, S, [c EXCEPT !.cur = items[1]])
             after == [r.c EXCEPT !.cur = oldContext]
         IN  IF isTruthy(r.v) = stop THEN [v |-> TRUE, c |-> after]
             ELSE iterate(Tail(items), cond, stop, S, after)

Arith(op, a, b) ==
    IF IsNil(a) \/ IsNil(b) \/ ~toFloatOk(a) \/ ~toFloatOk(b) THEN Null
    ELSE CASE op = "+" -> Num(a.n + b.n)
           [] op = "-" -> Num(a.n - b.n)
           [] op = "*" -> Num(a.n * b.n)
           [] OTHER    -> IF b.n = 0 THEN Null ELSE Num(a.n \div b.n)

compareNumeric(op, a, b) ==
    IF IsNil(a) \/ IsNil(b) \/ ~toFloatOk(a) \/ ~toFloatOk(b) THEN FALSE
    ELSE CASE op = ">"  -> a.n > b.n
           [] op = "<"  -> a.n < b.n
           [] op = ">=" -> a.n >= b.n
           [] OTHER     -> a.n <= b.n

compareDates(op, a, b) ==
    IF ~parseDateOk(a) \/ ~parseDateOk(b) THEN FALSE
    ELSE IF op = "before" THEN parseDateOf(a) < parseDateOf(b)
    ELSE parseDateOf(a) > parseDateOf(b)

(* opIn on an array haystack; the strings of the model are atoms, so a     *)
(* string haystack contains exactly itself.                                *)
opIn(needle, haystack) ==
    IF IsNil(needle) \/ IsNil(haystack) THEN FALSE
    ELSE IF haystack.t = "arr" THEN
        \E i \in 1..Len(haystack.a) : compareEqual(needle, haystack.a[i])
    ELSE IF haystack.t = "str" THEN needle.t = "str" /\ needle.s = haystack.s
    ELSE FALSE

(* executeOperator *)
executeOperator(op, node, S, c) ==
    CASE op = "var" -> getVar(node.path, S, c)
      [] op \in {"==", "!="} ->
            LET r == resolveArgs(node.args, 2, S, c)
                eq == compareEqual(r.vs[1], r.vs[2])
            IN  [v |-> Bool(IF op = "==" THEN eq ELSE ~eq), c |-> r.c]
      [] op \in {">", "<", ">=", "<="} ->
            LET r == resolveArgs(node.args, 2, S, c)
            IN  [v |-> Bool(compareNumeric(op, r.vs[1], r.vs[2])), c |-> r.c]
      [] op = "and" -> opAnd(node.args, S, c)
      [] op = "or" -> opOr(node.args, S, c)
      [] op \in {"not", "!"} ->
            LET r == resolveArgs(node.args, 1, S, c)
            IN  [v |-> Bool(~isTruthy(r.vs[1])), c |-> r.c]
      [] op = "if" -> opIf(node.args, S, c)
      [] op \in {"+", "-", "*", "/"} ->
            LET r == resolveArgs(node.args, 2, S, c)
            IN  [v |-> Arith(op, r.vs[1], r.vs[2]), c |-> r.c]
      [] op \in {"before", "after"} ->
            LET r == resolveArgs(node.args, 2, S, c)
            IN  [v |-> Bool(compareDates(op, r.vs[1], r.vs[2])), c |-> r.c]
      [] op = "in" ->
            LET r == resolveArgs(node.args, 2, S, c)
            IN  [v |-> Bool(opIn(r.vs[1], r.vs[2])), c |-> r.c]
      [] op \in {"some", "all", "none"} ->
            IF Len(node.args) < 2 THEN [v |-> Bool(FALSE), c |-> c]
            ELSE LET col == resolve(node.args[1], S, c)
                 IN  IF col.v.t # "arr" THEN [v |-> Bool(FALSE), c |-> col.c]
                     ELSE IF Len(col.v.a) = 0
                          THEN [v |-> Bool(op # "some"), c |-> col.c]
                     ELSE LET it == iterate(col.v.a, node.args[2],
                                            op # "all", S, col.c)
                          IN  [v |-> Bool(IF op = "some" THEN it.v ELSE ~it.v),
                               c |-> it.c]
      [] OTHER ->
            [v |-> Null,
             c |-> addErrorC(c, "", "", "runtime_warning",
                      "Unknown operator '" \o op \o "' in logic expression", "")]

-----------------------------------------------------------------------------
(* Documents.  A map is a function on a finite set of names (<<>> is the   *)
(* empty map); a Go range over a map visits its keys in an unspecified     *)
(* order: `ord`, a permutation of the names, drawn afresh by each step.    *)

Keys(m, ord) == SelectSeq(ord, LAMBDA k : k \in DOMAIN m)

Put(m, k, x) == IF k \in DOMAIN m THEN [m EXCEPT ![k] = x] ELSE (k :> x) @@ m

(* Definition (nil: the map holds a nil *Definition under the name, which  *)
(* is what a JSON null unmarshals to)                                      *)
Def(type, value) ==
    [nil |-> FALSE, type |-> type, value |-> value, required |-> FALSE,
     readonly |-> FALSE, visible |-> Null, min |-> Null, max |-> Null,
     step |-> Null, min_length |-> Null, max_length |-> Null, options |-> <<>>,
     ui_class |-> "", ui_message |-> ""]
NilDef == [Def("", Null) EXCEPT !.nil = TRUE]

(* Action; a nil *Action behaves as the empty one.                         *)
NoAction == [set |-> <<>>, ui_modify |-> <<>>, error_msg |-> "", error_kind |-> ""]
SetAction(m) == [NoAction EXCEPT !.set = m]
UIAction(m) == [NoAction EXCEPT !.ui_modify = m]
ErrAction(msg) == [NoAction EXCEPT !.error_msg = msg]

(* Rule *)
Rule(id, version, when, then) ==
    [id |-> id, law_ref |-> "", logic_version |-> version, when |-> when,
     then |-> then, disabled |-> FALSE]

(* TemporalBranch: valid_range[0], valid_range[1] (Null: absent).          *)
Branch(start, end, version) ==
    [start |-> start, end |-> end, logic_version |-> version]

(* Evidence (nil: absent) and Attestation *)
NoEvidence == [nil |-> TRUE, provider_audit_id |-> "", timestamp |-> ""]
Evidence(id, ts) == [nil |-> FALSE, provider_audit_id |-> id, timestamp |-> ts]
Attestation(required, signed, evidence, on_sign) ==
    [law_ref |-> "", required |-> required, signed |-> signed,
     evidence |-> evidence, on_sign |-> on_sign]

(* Schema *)
Schema(defs, rules, derived) ==
    [valid_from |-> "", definitions |-> defs, attestations |-> <<>>,
     logic_tree |-> rules, temporal_map |-> <<>>, derived |-> derived,
     errors |-> <<>>, status |-> ""]

(* NewEngine: the engine's fields over a schema; panic records that the    *)
(* goroutine is unwinding to Run's deferred recover.                       *)
NewEngine(S) == [schema |-> S, errors |-> <<>>, fieldsSet |-> <<>>, panic |-> FALSE]

addError(E, f, r, k, m, l) == [E EXCEPT !.errors = Append(@, Err(f, r, k, m, l))]

(* e.resolve from the engine: the context starts from the engine's errors  *)
(* with no current element and nothing in progress.                        *)
resolveE(E, node) ==
    LET r == resolve(node, E.schema, Ctx(E.errors))
    IN  [v |-> r.v,
         E |-> [E EXCEPT !.errors = r.c.errors, !.panic = @ \/ r.c.panic]]

-----------------------------------------------------------------------------
(* The rule pass: engine.go *)

(* the message of setDefinitionValue's cycle_detected error *)
CycleMessage(key, prevRule, ruleID) ==
    "potential cycle: field '" \o key \o "' set by rule '" \o prevRule
        \o "' and again by rule '" \o ruleID \o "'"

(* setDefinitionValue that remembers the first rule to set a field, not    *)
(* the last                                                                *)
setDefinitionValueKeepFirst(E, key, value, ruleID) ==
    LET E1 == IF key \in DOMAIN E.fieldsSet /\ E.fieldsSet[key] # ruleID
              THEN addError(E, key, ruleID, "cycle_detected",
                            CycleMessage(key, E.fieldsSet[key], ruleID), "")
              ELSE E
        E2 == IF key \in DOMAIN E.fieldsSet THEN E1
              ELSE [E1 EXCEPT !.fieldsSet = Put(@, key, ruleID)]
    IN  IF key \notin DOMAIN E2.schema.definitions
        THEN [E2 EXCEPT !.schema.definitions =
                 Put(@, key, [Def(inferType(value), value)
                                 EXCEPT !.visible = Bool(TRUE)])]
        ELSE IF E2.schema.definitions[key].nil
        THEN [E2 EXCEPT !.panic = TRUE]
        ELSE [E2 EXCEPT !.schema.definitions[key].value = value]

(* setDefinitionValue (def.Value = value on a nil *Definition panics) *)
setDefinitionValue(E, key, value, ruleID) ==
    LET E1 == IF key \in DOMAIN E.fieldsSet /\ E.fieldsSet[key] # ruleID
              THEN addError(E, key, ruleID, "cycle_detected",
                            CycleMessage(key, E.fieldsSet[key], ruleID), "")
              ELSE E
        E2 == [E1 EXCEPT !.fieldsSet = Put(@, key, ruleID)]
    IN  IF key \notin DOMAIN E2.schema.definitions
        THEN [E2 EXCEPT !.schema.definitions =
                 Put(@, key, [Def(inferType(value), value)
                                 EXCEPT !.visible = Bool(TRUE)])]
        ELSE IF E2.schema.definitions[key].nil
        THEN [E2 EXCEPT !.panic = TRUE]
        ELSE [E2 EXCEPT !.schema.definitions[key].value = value]

(* One attribute of a ui_modify entry under the type assertion the code    *)
(* makes on it: the value when the key is present with that type, else the *)
(* attribute's old value.                                                  *)
Mod(mods, attr, tag, old) ==
    IF attr \in DOMAIN mods /\ mods[attr].t = tag THEN mods[attr] ELSE old

(* applyUIModify *)
applyUIModify(E, key, mods) ==
    IF key \notin DOMAIN E.schema.definitions \/ E.schema.definitions[key].nil THEN E
    ELSE LET def == E.schema.definitions[key]
         IN  [E EXCEPT !.schema.definitions[key] =
                [def EXCEPT
                   !.visible = Mod(mods, "visible", "bool", def.visible),
                   !.ui_class = Mod(mods, "ui_class", "str", Str(def.ui_class)).s,
                   !.ui_message = Mod(mods, "ui_message", "str", Str(def.ui_message)).s,
                   !.required = Mod(mods, "required", "bool", Bool(def.required)).n = 1,
                   !.min = Mod(mods, "min", "num", def.min),
                   !.max = Mod(mods, "max", "num", def.max),
                   !.step = Mod(mods, "step", "num", def.step),
                   !.min_length = Mod(mods, "min_length", "num", def.min_length),
                   !.max_length = Mod(mods, "max_length", "num", def.max_length)]]

RECURSIVE applySets(_, _, _, _)
(* the range over action.Set in applyAction *)
applySets(E, set, keys, ruleID) ==
    IF keys = <<>> THEN E
    ELSE LET r == resolveE(E, set[keys[1]])
         IN  applySets(setDefinitionValue(r.E, keys[1], r.v, ruleID),
                       set, Tail(keys), ruleID)

RECURSIVE applyMods(_, _, _)
(* the range over action.UIModify in applyAction *)
applyMods(E, ui, keys) ==
    IF keys = <<>> THEN E
    ELSE applyMods(applyUIModify(E, keys[1], ui[keys[1]]), ui, Tail(keys))

(* applyAction *)
(* applyAction with an error of no kind taken for a warning *)
applyActionAsWarning(E, action, ruleID, lawRef, ord) ==
    LET E1 == applySets(E, action.set, Keys(action.set, ord), ruleID)
        E2 == applyMods(E1, action.ui_modify, Keys(action.ui_modify, ord))
    IN  IF action.error_msg # ""
        THEN addError(E2, "", ruleID,
                      IF action.error_kind = "" THEN "runtime_warning"
                      ELSE action.error_kind,
                      action.error_msg, lawRef)
        ELSE E2

applyAction(E, action, ruleID, lawRef, ord) ==
    LET E1 == applySets(E, action.set, Keys(action.set, ord), ruleID)
        E2 == applyMods(E1, action.ui_modify, Keys(action.ui_modify, ord))
    IN  IF action.error_msg # ""
        THEN addError(E2, "", ruleID,
                      IF action.error_kind = "" THEN "constraint_violation"
                      ELSE action.error_kind,
                      action.error_msg, lawRef)
        ELSE E2

(* evaluateLogicTree's loop body taking the rules last to first: at        *)
(* position i the rule at position Len + 1 - i                             *)
ruleStepBackwards(E, i, ord) ==
    LET j == Len(E.schema.logic_tree) + 1 - i
        rule == E.schema.logic_tree[j]
        r == resolveE(E, rule.when)
    IN  IF rule.disabled
        THEN [E |-> E, rule |-> j, evaluated |-> FALSE, fired |-> FALSE,
              saw |-> E.schema]
        ELSE [E |-> IF isTruthy(r.v)
                    THEN applyAction(r.E, rule.then, rule.id, rule.law_ref, ord)
                    ELSE r.E,
              rule |-> j, evaluated |-> TRUE, fired |-> isTruthy(r.v),
              saw |-> E.schema]

(* The body of evaluateLogicTree's loop for the rule at position i: the    *)
(* engine after it, and what it did (which rule it took, whether it        *)
(* evaluated the condition, against which document, and whether the        *)
(* action was applied).                                                    *)
ruleStep(E, i, ord) ==
    LET rule == E.schema.logic_tree[i]
        r == resolveE(E, rule.when)
    IN  IF rule.disabled
        THEN [E |-> E, rule |-> i, evaluated |-> FALSE, fired |-> FALSE,
              saw |-> E.schema]
        ELSE [E |-> IF isTruthy(r.v)
                    THEN applyAction(r.E, rule.then, rule.id, rule.law_ref, ord)
                    ELSE r.E,
              rule |-> i, evaluated |-> TRUE, fired |-> isTruthy(r.v),
              saw |-> E.schema]

(* a rule pass that waits at a rule until it fires                          *)
nextRuleWhenFired(i, fired) == IF fired THEN i + 1 ELSE i

(* evaluateLogicTree's range statement: the position after position i,     *)
(* whether or not the rule there fired                                     *)
nextRule(i, fired) == i + 1

RECURSIVE rulesFrom(_, _, _)
(* the loop of evaluateLogicTree from position i on *)
rulesFrom(E, i, ord) ==
    IF i > Len(E.schema.logic_tree) THEN E
    ELSE LET st == ruleStep(E, i, ord)
         IN  rulesFrom(st.E, nextRule(i, st.fired), ord)

(* evaluateLogicTree *)
evaluateLogicTree(E, ord) == rulesFrom(E, 1, ord)

RECURSIVE derivedOver(_, _)
(* the loop of computeDerived over the derived names `keys` *)
derivedOver(E, keys) ==
    IF keys = <<>> THEN E
    ELSE LET name == keys[1]
             eval == E.schema.derived[name]
         IN  IF eval = NoExpr THEN derivedOver(E, Tail(keys))
             ELSE LET r == resolveE(E, eval)
                      defs == r.E.schema.definitions
                      def == IF name \in DOMAIN defs /\ ~defs[name].nil
                             THEN [defs[name] EXCEPT
                                     !.value = r.v, !.readonly = TRUE,
                                     !.visible = IF IsNil(@) THEN Bool(TRUE) ELSE @]
                             ELSE [Def(inferType(r.v), r.v) EXCEPT
                                     !.readonly = TRUE, !.visible = Bool(TRUE)]
                  IN  derivedOver([r.E EXCEPT !.schema.definitions =
                                      Put(@, name, def)], Tail(keys))

(* computeDerived *)
computeDerived(E, ord) == derivedOver(E, Keys(E.schema.derived, ord))

-----------------------------------------------------------------------------
(* The temporal router: temporal.go *)

(* currStartTime <= prevEndTime in validateTemporalMap: an end that is     *)
(* absent or does not parse stands for 1<<62 - 1 and such a start for      *)
(* -(1<<62 - 1), beyond every instant a date denotes.                      *)
StartsWithin(start, prevEnd) ==
    IF ~parseDateOk(prevEnd) \/ ~parseDateOk(start) THEN TRUE
    ELSE parseDateOf(start) <= parseDateOf(prevEnd)

RECURSIVE temporalFrom(_, _)
(* the loop of validateTemporalMap from branch i on (i counts from 1; the  *)
(* messages carry the code's 0-based index).  The calls pass no kind.      *)
temporalFrom(E, i) ==
    IF i > Len(E.schema.temporal_map) THEN E
    ELSE LET br == E.schema.temporal_map[i]
             E1 == IF ~IsNil(br.start) /\ ~IsNil(br.end) /\ br.start = br.end
                   THEN addError(E, "", "", "",
                           "Temporal branch " \o ToString(i - 1)
                              \o " has same start and end date '" \o br.start.s
                              \o "' (invalid range)", "")
                   ELSE E
             E2 == IF i > 1 /\ StartsWithin(br.start, E.schema.temporal_map[i - 1].end)
                   THEN addError(E1, "", "", "",
                           "Temporal branch " \o ToString(i - 1)
                              \o " overlaps with branch " \o ToString(i - 2)
                              \o " (ranges must not overlap)", "")
                   ELSE E1
         IN  temporalFrom(E2, i + 1)

(* validateTemporalMap *)
validateTemporalMap(E) == temporalFrom(E, 1)

(* a branch test whose range leaves its end date out *)
CoversBeforeEnd(br, targetDate) ==
    /\ ~IsNil(br.start)
    /\ parseDateOk(br.start)
    /\ ~(targetDate < parseDateOf(br.start))
    /\ ~(~IsNil(br.end) /\ parseDateOk(br.end) /\ targetDate >= parseDateOf(br.end))

(* Whether selectBranch's loop returns branch br for the instant.          *)
Covers(br, targetDate) ==
    /\ ~IsNil(br.start)
    /\ parseDateOk(br.start)
    /\ ~(targetDate < parseDateOf(br.start))
    /\ ~(~IsNil(br.end) /\ parseDateOk(br.end) /\ targetDate > parseDateOf(br.end))

(* selectBranch: the index of the first branch that covers the instant,    *)
(* 0 for nil.                                                              *)
selectBranch(S, targetDate) ==
    LET hits == {i \in 1..Len(S.temporal_map) : Covers(S.temporal_map[i], targetDate)}
    IN  IF hits = {} THEN 0 ELSE CHOOSE i \in hits : \A j \in hits : i <= j

(* prune with the version test inverted: the active version's rules are   *)
(* the ones disabled                                                       *)
pruneActive(E, activeVersion) ==
    [E EXCEPT !.schema.logic_tree =
        [i \in 1..Len(@) |->
            IF @[i].logic_version # "" /\ @[i].logic_version = activeVersion
            THEN [@[i] EXCEPT !.disabled = TRUE]
            ELSE @[i]]]

(* prune *)
prune(E, activeVersion) ==
    [E EXCEPT !.schema.logic_tree =
        [i \in 1..Len(@) |->
            IF @[i].logic_version # "" /\ @[i].logic_version # activeVersion
            THEN [@[i] EXCEPT !.disabled = TRUE]
            ELSE @[i]]]

-----------------------------------------------------------------------------
(* The validator: validate.go *)

(* fmt's %.2f of a whole number *)
Fmt2f(v) == ToString(v.n) \o ".00"

(* validateNumericConstraints *)
validateNumericConstraints(E, id, value, def) ==
    LET E1 == IF ~IsNil(def.min) /\ value.n < def.min.n
              THEN addError(E, id, "", "constraint_violation",
                      "Field '" \o id \o "' value " \o Fmt2f(value)
                         \o " is below minimum " \o Fmt2f(def.min), "")
              ELSE E
    IN  IF ~IsNil(def.max) /\ value.n > def.max.n
        THEN addError(E1, id, "", "constraint_violation",
                "Field '" \o id \o "' value " \o Fmt2f(value)
                   \o " exceeds maximum " \o Fmt2f(def.max), "")
        ELSE E1

(* validateStringConstraints (the documents of the model carry no pattern) *)
validateStringConstraints(E, id, value, def) ==
    LET E1 == IF ~IsNil(def.min_length) /\ Len(value.s) < def.min_length.n
              THEN addError(E, id, "", "constraint_violation",
                      "Field '" \o id \o "' is too short (minimum "
                         \o ToString(def.min_length.n) \o " characters)", "")
              ELSE E
    IN  IF ~IsNil(def.max_length) /\ Len(value.s) > def.max_length.n
        THEN addError(E1, id, "", "constraint_violation",
                "Field '" \o id \o "' is too long (maximum "
                   \o ToString(def.max_length.n) \o " characters)", "")
        ELSE E1

(* isValidOption (an absent options list restricts nothing) *)
isValidOption(value, options) ==
    options = <<>> \/ \E i \in 1..Len(options) : options[i] = value

(* validateType *)
validateType(E, id, def) ==
    LET value == def.value
    IN  IF isSlice(value) THEN E
        ELSE CASE def.type = "string" ->
                    IF value.t # "str"
                    THEN addError(E, id, "", "type_mismatch",
                            "Field '" \o id \o "' must be a string", "")
                    ELSE validateStringConstraints(E, id, value, def)
               [] def.type \in {"number", "currency"} ->
                    IF ~toFloatOk(value)
                    THEN addError(E, id, "", "type_mismatch",
                            "Field '" \o id \o "' must be a number", "")
                    ELSE validateNumericConstraints(E, id, value, def)
               [] def.type = "boolean" ->
                    IF value.t # "bool"
                    THEN addError(E, id, "", "type_mismatch",
                            "Field '" \o id \o "' must be a boolean", "")
                    ELSE E
               [] def.type = "select" ->
                    IF value.t # "str"
                    THEN addError(E, id, "", "type_mismatch",
                            "Field '" \o id \o "' must be a string", "")
                    ELSE IF ~isValidOption(value.s, def.options)
                    THEN addError(E, id, "", "constraint_violation",
                            "Field '" \o id \o "' value '" \o value.s
                               \o "' is not a valid option", "")
                    ELSE E
               [] def.type = "attestation" ->
                    IF value.t # "bool"
                    THEN addError(E, id, "", "type_mismatch",
                            "Attestation '" \o id \o "' must be a boolean", "")
                    ELSE E
               [] def.type = "date" ->
                    IF ~parseDateOk(value)
                    THEN addError(E, id, "", "type_mismatch",
                            "Field '" \o id \o "' must be a valid date", "")
                    ELSE E
               [] OTHER -> E

RECURSIVE validateUntilError(_, _)
(* a validation loop that gives up at the first error there is *)
validateUntilError(E, keys) ==
    IF keys = <<>> \/ E.errors # <<>> THEN E
    ELSE LET id == keys[1]
             def == E.schema.definitions[id]
             E1 == IF def.required /\ IsNil(def.value)
                   THEN addError(E, id, "", "missing_required",
                           "Required field '" \o id \o "' is missing", "")
                   ELSE E
             E2 == IF ~IsNil(def.value) THEN validateType(E1, id, def) ELSE E1
         IN  validateUntilError(IF def.nil THEN E ELSE E2, Tail(keys))

RECURSIVE validateOver(_, _)
(* the loop of validateDefinitions over the names `keys` *)
validateOver(E, keys) ==
    IF keys = <<>> THEN E
    ELSE LET id == keys[1]
             def == E.schema.definitions[id]
             missing == def.required /\
                          \/ IsNil(def.value)
                          \/ /\ def.type \in {"string", "select"}
                             /\ def.value.t = "str" /\ def.value.s = ""
             E1 == IF missing
                   THEN addError(E, id, "", "missing_required",
                           "Required field '" \o id \o "' is missing", "")
                   ELSE E
             E2 == IF ~IsNil(def.value) THEN validateType(E1, id, def) ELSE E1
         IN  validateOver(IF def.nil THEN E ELSE E2, Tail(keys))

(* validateDefinitions *)
validateDefinitions(E, ord) == validateOver(E, Keys(E.schema.definitions, ord))

RECURSIVE legacyOver(_, _)
(* checkAttestations, first loop: attestation-typed definitions *)
legacyOver(E, keys) ==
    IF keys = <<>> THEN E
    ELSE LET id == keys[1]
             def == E.schema.definitions[id]
         IN  legacyOver(
               IF ~def.nil /\ def.type = "attestation" /\ def.required
                  /\ def.value # Bool(TRUE)
               THEN addError(E, id, "", "attestation_incomplete",
                       "Required attestation '" \o id \o "' not confirmed", "")
               ELSE E,
               Tail(keys))

RECURSIVE richOver(_, _, _)
(* checkAttestations, second loop: on_sign of a signed attestation, then   *)
(* the required attestation's signature and evidence.                      *)
richOver(E, keys, ord) ==
    IF keys = <<>> THEN E
    ELSE LET id == keys[1]
             att == E.schema.attestations[id]
             E1 == IF att.signed /\ att.on_sign # NoAction
                   THEN applyAction(E, att.on_sign, "attestation_" \o id,
                                    att.law_ref, ord)
                   ELSE E
             E2 == IF att.required /\ ~att.signed
                   THEN addError(E1, id, "", "attestation_incomplete",
                           "Required attestation '" \o id \o "' not signed",
                           att.law_ref)
                   ELSE IF att.required /\
                           (att.evidence.nil \/ att.evidence.provider_audit_id = "")
                   THEN addError(E1, id, "", "attestation_incomplete",
                           "Attestation '" \o id \o "' signed but missing evidence",
                           att.law_ref)
                   ELSE E1
         IN  richOver(E2, Tail(keys), ord)

(* checkAttestations *)
checkAttestations(E, ord) ==
    richOver(legacyOver(E, Keys(E.schema.definitions, ord)),
             Keys(E.schema.attestations, ord), ord)

HasKind(errs, kinds) == \E i \in 1..Len(errs) : errs[i].kind \in kinds

(* determineStatus with the constraint check ahead of the completeness     *)
(* check                                                                   *)
determineStatusConstraintFirst(errs) ==
    IF HasKind(errs, {"type_mismatch", "constraint_violation"}) THEN "INVALID"
    ELSE IF HasKind(errs, {"missing_required", "attestation_incomplete"})
    THEN "INCOMPLETE"
    ELSE "READY"

(* determineStatus *)
determineStatus(errs) ==
    IF HasKind(errs, {"type_mismatch"}) THEN "INVALID"
    ELSE IF HasKind(errs, {"missing_required", "attestation_incomplete"})
    THEN "INCOMPLETE"
    ELSE IF HasKind(errs, {"constraint_violation"}) THEN "INVALID"
    ELSE "READY"

-----------------------------------------------------------------------------
(* Run: engine.go.  Each stage is a function of the engine's fields.       *)

(* Run, step 1: unmarshal, default visibility, NewEngine *)
materialize(doc) ==
    NewEngine([doc EXCEPT !.definitions =
        [id \in DOMAIN @ |->
            IF ~@[id].nil /\ IsNil(@[id].visible)
            THEN [@[id] EXCEPT !.visible = Bool(TRUE)]
            ELSE @[id]]])

(* Run, step 2: validate the temporal map, select the branch, prune *)
route(E, targetDate) ==
    IF Len(E.schema.temporal_map) > 0
    THEN LET E1 == validateTemporalMap(E)
             b == selectBranch(E1.schema, targetDate)
         IN  IF b # 0 THEN prune(E1, E1.schema.temporal_map[b].logic_version)
             ELSE E1
    ELSE E

(* Run, step 7: attach errors and status; marshal returns the schema *)
(* an encoder that leaves out every value that is false, 0 or "" *)
omitemptyFalsy(v) == ~isTruthy(v)

(* the omitempty option on Definition.Value, a field of interface type:    *)
(* the encoder leaves the value out when the interface is nil              *)
omitempty(v) == IsNil(v)

(* marshal: the document as the caller reads it back; a value left out     *)
(* reads as null                                                           *)
marshal(S) ==
    [S EXCEPT !.definitions =
        [id \in DOMAIN @ |->
            IF ~@[id].nil /\ omitempty(@[id].value)
            THEN [@[id] EXCEPT !.value = Null]
            ELSE @[id]]]

finish(E) ==
    marshal([E.schema EXCEPT !.errors = E.errors,
                             !.status = determineStatus(E.errors)])

(* Run's stages up to determineStatus, as one call *)
pipeline(doc, targetDate, ord) ==
    checkAttestations(
      validateDefinitions(
        computeDerived(
          evaluateLogicTree(
            computeDerived(route(materialize(doc), targetDate), ord),
            ord),
          ord),
        ord),
      ord)

(* what Run returns in place of a document when it recovered from a panic  *)
(* (the empty result and an error)                                         *)
NoDoc == Schema(<<>>, <<>>, <<>>)

(* Run as one call *)
Run(doc, targetDate, ord) ==
    LET E == pipeline(doc, targetDate, ord)
    IN  IF E.panic THEN NoDoc ELSE finish(E)

(* The engine's fields as the state holds them *)
Eng == [schema |-> schema, errors |-> errors, fieldsSet |-> fieldsSet,
        panic |-> FALSE]

SetEng(E) ==
    /\ schema' = E.schema
    /\ errors' = E.errors
    /\ fieldsSet' = E.fieldsSet

(* A stage of Run has left the engine as E: Run goes on to the stage       *)
(* `next`, or, when the stage panicked, the deferred recover returns the   *)
(* empty result and an error.                                              *)
Advance(E, next) ==
    IF E.panic
    THEN /\ pc' = "failed"
         /\ schema' = NoDoc
         /\ errors' = <<>>
         /\ fieldsSet' = <<>>
    ELSE /\ pc' = next
         /\ SetEng(E)

verifyVars == <<vpc, base, completed, maxIterations, iteration, currentJson,
                previousVisibleSet, prevResult, resultSchema, calls, now,
                submission, vr>>

RECURSIVE Perms(_)
(* every order in which a range can visit the names S *)
Perms(S) ==
    IF S = {} THEN {<<>>}
    ELSE UNION {{<<x>> \o p : p \in Perms(S \ {x})} : x \in S}

-----------------------------------------------------------------------------
(* The documents Run is checked on. *)

MaxRules == 2    \* longest logic_tree drawn
MaxRuns == 2     \* Run calls on one document lineage: the input, then its output
MaxChain == 3    \* longest logic_tree of the documents whose rules share a field

V(name) == Var(<<name>>)
N(k) == Lit(Num(k))
True == Op("==", <<N(1), N(1)>>)

(* definitions of the input field x *)
XDefs ==
    { [Def("number", Null) EXCEPT !.required = TRUE],
      Def("number", Num(1)),
      [Def("number", Num(5)) EXCEPT !.max = Num(3)],
      [Def("string", Str("")) EXCEPT !.required = TRUE, !.min_length = Num(1)],
      Def("string", Num(1)) }

(* state_model.derived *)
DerivedOpts ==
    { <<>>,
      "d" :> Op("+", <<V("x"), N(1)>>),
      "d" :> V("d"),
      ("d" :> V("y")) @@ ("y" :> Op("+", <<V("d"), N(1)>>)) }

RInc == Rule("inc", "", Op("<", <<V("x"), N(3)>>),
             SetAction("x" :> Op("+", <<V("x"), N(1)>>)))
RSetA == Rule("a", "", Op(">", <<V("d"), N(1)>>), SetAction("y" :> Lit(Str("a"))))
RSetB == Rule("b", "", True, SetAction("y" :> N(1)))
RErr == [Rule("err", "", Op(">", <<V("x"), N(0)>>), ErrAction("x must not be positive"))
           EXCEPT !.law_ref = "L1"]
RUi == Rule("ui", "", True,
            UIAction("x" :> (("required" :> Bool(TRUE)) @@ ("max" :> Num(0))
                              @@ ("visible" :> Bool(FALSE)))))
RV1 == Rule("r1", "v1", True, SetAction("y" :> Lit(Str("v1"))))
RV2 == Rule("r2", "v2", True,
             [ErrAction("v2 only") EXCEPT
                 !.ui_modify = "x" :> ("visible" :> Bool(FALSE))])

RSetC == Rule("c", "", True, SetAction("y" :> Lit(Str("c"))))
RSeen == Rule("seen", "", Op("==", <<V("y"), N(1)>>), ErrAction("y is 1"))

RECURSIVE SeqsUpTo(_, _)
(* the sequences over T of length at most n *)
SeqsUpTo(T, n) ==
    IF n = 0 THEN {<<>>}
    ELSE LET shorter == SeqsUpTo(T, n - 1)
         IN  shorter \cup {Append(q, t) : q \in shorter, t \in T}

(* temporal_map *)
TemporalOpts ==
    { << Branch(Str("2024-01-01"), Str("2024-12-31"), "v1"),
         Branch(Str("2025-01-01"), Null, "v2") >>,
      << Branch(Str("2024-01-01"), Str("2024-01-01"), "v1"),
         Branch(Str("2024-01-01"), Null, "v2") >>,
      << Branch(Str("2024-01-01"), Str("2025-06-01"), "v1"),
         Branch(Str("2024-12-31"), Str("2025-01-01"), "v2"),
         Branch(Str("2025-06-01"), Null, "v3") >> }

(* the instants: day 0 is before every date of DateTable *)
Dates == 0..4

(* attestations *)
OnSignBad == SetAction("x" :> Lit(Str("bad")))
OnSignDerived == SetAction("d" :> N(0))
AttOpts ==
    { Attestation(TRUE, FALSE, NoEvidence, NoAction),
      Attestation(TRUE, TRUE, Evidence("audit-1", "2025-01-01"), OnSignDerived),
      Attestation(TRUE, TRUE, NoEvidence, NoAction),
      Attestation(TRUE, TRUE, Evidence("audit-1", "2025-01-01"), OnSignBad),
      Attestation(FALSE, TRUE, NoEvidence,
                  UIAction("x" :> ("required" :> Bool(TRUE)))) }

CoreDocs ==
    { Schema("x" :> x, rules, derived) :
        x \in XDefs, rules \in SeqsUpTo({RInc, RSetA, RSetB, RErr, RUi}, MaxRules),
        derived \in DerivedOpts }

TemporalDocs ==
    { [Schema("x" :> Def("number", Num(1)), rules, <<>>) EXCEPT !.temporal_map = tm] :
        rules \in SeqsUpTo({RV1, RV2, RInc}, MaxRules), tm \in TemporalOpts }

AttDocs ==
    { [Schema("x" :> x, rules, derived) EXCEPT !.attestations = "sig" :> att] :
        x \in XDefs, rules \in SeqsUpTo({RInc, RErr}, 1),
        derived \in {<<>>, "d" :> Op("+", <<V("x"), N(1)>>)}, att \in AttOpts }

(* fields holding false, 0 and "", with and without a rule, a derived    *)
(* field and constraints laid on them                                      *)
FalsyDocs ==
    { Schema(("x" :> x) @@ ("y" :> Def("string", Str(""))), rules, derived) :
        x \in {Def("boolean", Bool(FALSE)), Def("number", Num(0)),
               [Def("string", Str("")) EXCEPT !.required = TRUE]},
        rules \in {<<>>, <<RSetA>>, <<RUi>>, <<RErr>>},
        derived \in {<<>>, "d" :> Op("+", <<V("x"), N(1)>>)} }

(* rules that write the same field y, and one that reads it *)
ChainDocs ==
    { Schema("x" :> Def("number", Num(1)), rules, "d" :> Op("+", <<V("x"), N(1)>>)) :
        rules \in SeqsUpTo({RSetA, RSetB, RSetC, RSeen}, MaxChain) }

(* two definitions, each missing, out of range or a JSON null *)
PairDocs ==
    { Schema(("x" :> x) @@ ("y" :> y), rules, <<>>) :
        x \in {[Def("number", Null) EXCEPT !.required = TRUE],
               Def("number", Num(1)), NilDef},
        y \in {[Def("string", Null) EXCEPT !.required = TRUE],
               [Def("number", Num(5)) EXCEPT !.max = Num(3)], NilDef},
        rules \in SeqsUpTo({RInc, RErr}, 1) }

(* documents whose unversioned rule arrives with "disabled": true, with    *)
(* and without a temporal map                                              *)
DisabledDocs ==
    { [Schema("x" :> Def("number", Num(1)), <<[r EXCEPT !.disabled = TRUE]>> \o rest,
              <<>>) EXCEPT !.temporal_map = tm] :
        r \in {RInc, RSetB}, rest \in {<<>>, <<RV1>>, <<RErr>>},
        tm \in TemporalOpts \cup {<<>>} }

(* derived fields that refer to themselves or are read twice, over a      *)
(* definition d that holds a value                                         *)
SelfDocs ==
    { Schema(("x" :> Def("number", Num(1))) @@ ("d" :> Def("number", Num(5))),
             rules, derived) :
        rules \in {<<>>, <<RSetA>>},
        derived \in { "d" :> V("d"),
                      "d" :> Op("+", <<V("d"), N(1)>>),
                      ("d" :> Op("+", <<V("x"), N(1)>>))
                         @@ ("y" :> Op("+", <<V("d"), V("d")>>)) } }

(* rules whose conditions read a name q that no document defines, outside *)
(* and inside a some/all/none predicate, and nest one iteration in another *)
Elem == Var(<<>>)
ArrOf(nodes) == Op("arr", nodes)
RMiss == Rule("miss", "", Op("==", <<V("q"), N(1)>>), SetAction("y" :> N(1)))
RSomeMiss == Rule("somemiss", "",
                  Op("some", <<ArrOf(<<N(1), N(2)>>), Op("==", <<V("q"), Elem>>)>>),
                  SetAction("y" :> N(1)))
RNoneNull == Rule("nonenull", "",
                  Op("none", <<ArrOf(<<Lit(Null), N(1)>>), Op("==", <<V("q"), N(1)>>)>>),
                  SetAction("y" :> N(1)))
RNest == Rule("nest", "",
              Op("some", <<ArrOf(<<N(1), N(2)>>),
                           Op("and", <<Op("all", <<ArrOf(<<N(3)>>),
                                                   Op("==", <<Elem, N(3)>>)>>),
                                       Op("==", <<Elem, N(2)>>)>>)>>),
              SetAction("y" :> Lit(Str("nested"))))
RAfter == Rule("after", "",
               Op("and", <<Op("some", <<ArrOf(<<N(1)>>), Op("==", <<Elem, N(1)>>)>>),
                           Op("==", <<V("q"), N(1)>>)>>),
               SetAction("y" :> N(1)))

IterDocs ==
    { Schema("x" :> Def("number", Num(1)), rules, <<>>) :
        rules \in SeqsUpTo({RMiss, RSomeMiss, RNoneNull, RNest, RAfter}, MaxRules) }

(* The orders a range can visit the names of the model's documents in:    *)
(* x, y and d in every order ahead of the other names, and all the names   *)
(* backwards.                                                              *)
OtherNames == <<"sig", "a", "a,b", "b,c", "c", "f", "t", "z">>
Reverse(q) == [i \in 1..Len(q) |-> q[Len(q) + 1 - i]]
Orders ==
    {p \o OtherNames : p \in Perms({"x", "y", "d"})}
        \cup {Reverse(<<"x", "y", "d">> \o OtherNames)}

-----------------------------------------------------------------------------
(* Run as a state machine: one action per pipeline step. *)

NoResult == [valid |-> FALSE, status |-> "", issues |-> <<>>, schema |-> NoDoc]
NoSubmission ==
    [kind |-> "none", field |-> "", value |-> Null, computed |-> Null, fills |-> 0]

(* a position of logic_tree the loop has not come to *)
NotReached ==
    [rule |-> 0, evals |-> 0, evaluated |-> FALSE, fired |-> FALSE,
     saw |-> NoDoc, post |-> NoDoc]

ruleVars == <<ruleIdx, rulePass>>

NoLint == [valid |-> TRUE, issues |-> <<>>]

LintIdle ==
    /\ lpc = "idle"
    /\ lintIn = NoDoc
    /\ lintOut = NoLint

VerifyIdle ==
    /\ vpc = "idle"
    /\ base = NoDoc
    /\ completed = NoDoc
    /\ maxIterations = 0
    /\ iteration = 0
    /\ currentJson = NoDoc
    /\ previousVisibleSet = ""
    /\ prevResult = NoDoc
    /\ resultSchema = NoDoc
    /\ calls = 0
    /\ now = 0
    /\ submission = NoSubmission
    /\ vr = NoResult

Init ==
    /\ pc = "start"
    /\ \/ input \in CoreDocs /\ date = 0
       \/ input \in TemporalDocs /\ date \in Dates
       \/ input \in AttDocs /\ date = 0
       \/ input \in ChainDocs /\ date = 0
       \/ input \in PairDocs /\ date = 0
       \/ input \in SelfDocs /\ date = 0
       \/ input \in IterDocs /\ date = 0
       \/ input \in FalsyDocs /\ date = 0
       \/ input \in DisabledDocs /\ date \in {0, 3}
    /\ schema = NoDoc
    /\ errors = <<>>
    /\ fieldsSet = <<>>
    /\ ruleIdx = 1
    /\ rulePass = <<>>
    /\ runs = 0
    /\ firstOut = NoDoc
    /\ VerifyIdle
    /\ LintIdle

(* Run: unmarshal, default visibility, NewEngine *)
Materialize ==
    /\ pc = "start"
    /\ Advance(materialize(input), "route")
    /\ ruleIdx' = 1
    /\ rulePass' = [p \in 1..Len(input.logic_tree) |-> NotReached]
    /\ UNCHANGED <<input, date, runs, firstOut, verifyVars>>
    /\ UNCHANGED lintVars

(* Run: temporal routing *)
Route ==
    /\ pc = "route"
    /\ Advance(route(Eng, date), "derived1")
    /\ UNCHANGED <<input, date, ruleVars, runs, firstOut, verifyVars>>
    /\ UNCHANGED lintVars

(* Run: first computeDerived *)
Derived1 ==
    /\ pc = "derived1"
    /\ \E ord \in Orders : Advance(computeDerived(Eng, ord), "rules")
    /\ UNCHANGED <<input, date, ruleVars, runs, firstOut, verifyVars>>
    /\ UNCHANGED lintVars

(* Run: one pass of evaluateLogicTree's loop body *)
Rules ==
    /\ pc = "rules"
    /\ ruleIdx <= Len(schema.logic_tree)
    /\ \E st \in {ruleStep(Eng, ruleIdx, ord) : ord \in Orders} :
          /\ Advance(st.E, "rules")
          /\ ruleIdx' = nextRule(ruleIdx, st.fired)
          /\ rulePass' =
                [rulePass EXCEPT ![ruleIdx] =
                    [rule |-> st.rule,
                     evals |-> IF @.evals < 2 THEN @.evals + 1 ELSE 2,
                     evaluated |-> st.evaluated,
                     fired |-> st.fired,
                     saw |-> st.saw,
                     post |-> st.E.schema]]
    /\ UNCHANGED <<input, date, runs, firstOut, verifyVars>>
    /\ UNCHANGED lintVars

(* Run: evaluateLogicTree's loop is over *)
RulesDone ==
    /\ pc = "rules"
    /\ ruleIdx > Len(schema.logic_tree)
    /\ pc' = "derived2"
    /\ UNCHANGED <<input, date, schema, errors, fieldsSet, ruleVars, runs,
                   firstOut, verifyVars>>
    /\ UNCHANGED lintVars

(* Run: second computeDerived *)
Derived2 ==
    /\ pc = "derived2"
    /\ \E ord \in Orders : Advance(computeDerived(Eng, ord), "validate")
    /\ UNCHANGED <<input, date, ruleVars, runs, firstOut, verifyVars>>
    /\ UNCHANGED lintVars

(* Run: validateDefinitions *)
Validate ==
    /\ pc = "validate"
    /\ \E ord \in Orders : Advance(validateDefinitions(Eng, ord), "attest")
    /\ UNCHANGED <<input, date, ruleVars, runs, firstOut, verifyVars>>
    /\ UNCHANGED lintVars

(* Run: checkAttestations *)
Attest ==
    /\ pc = "attest"
    /\ \E ord \in Orders : Advance(checkAttestations(Eng, ord), "finish")
    /\ UNCHANGED <<input, date, ruleVars, runs, firstOut, verifyVars>>
    /\ UNCHANGED lintVars

(* Run: status, errors attached, result returned *)
Finish ==
    /\ pc = "finish"
    /\ schema' = finish(Eng)
    /\ pc' = "done"
    /\ runs' = runs + 1
    /\ firstOut' = IF runs = 0 THEN finish(Eng) ELSE firstOut
    /\ UNCHANGED <<input, date, errors, fieldsSet, ruleVars, verifyVars>>
    /\ UNCHANGED lintVars

(* the caller hands Run's output back to Run at the same instant *)
Resubmit ==
    /\ pc = "done"
    /\ runs < MaxRuns
    /\ input' = schema
    /\ pc' = "start"
    /\ UNCHANGED <<date, schema, errors, fieldsSet, ruleVars, runs, firstOut,
                   verifyVars>>
    /\ UNCHANGED lintVars

Next ==
    \/ Materialize
    \/ Route
    \/ Derived1
    \/ Rules
    \/ RulesDone
    \/ Derived2
    \/ Validate
    \/ Attest
    \/ Finish
    \/ Resubmit

Spec == Init /\ [][Next]_vars

(* the positions inside a call of Run *)
Running ==
    {"start", "route", "derived1", "rules", "derived2", "validate", "attest",
     "finish"}

(* the position of a call of Run *)
position == <<pc, ruleIdx>>

(* whether the rule at evaluateLogicTree's position fires *)
firesHere ==
    LET rule == schema.logic_tree[ruleIdx]
    IN  ~rule.disabled /\ isTruthy(resolveE(Eng, rule.when).v)

(* a call of Run moves on: a stage hands over to the next one or the call   *)
(* returns, and evaluateLogicTree's loop goes to the position that follows  *)
(* the rule it has just dealt with                                          *)
RunStep ==
    \/ /\ pc \in Running \ {"rules"}
       /\ pc' \in (Running \cup {"done", "failed"}) \ {pc}
       /\ ruleIdx' \in {1, ruleIdx}
    \/ /\ pc = "rules"
       /\ ruleIdx > Len(schema.logic_tree)
       /\ pc' = "derived2"
       /\ ruleIdx' = ruleIdx
    \/ /\ pc = "rules"
       /\ ruleIdx <= Len(schema.logic_tree)
       /\ pc' = "rules"
       /\ ruleIdx' = nextRule(ruleIdx, firesHere)

(* Run is one sequential call on one goroutine: once entered, its position *)
(* keeps moving until it returns; handing the output back is up to the      *)
(* caller.                                                                  *)
SpecLive == Init /\ [][Next]_vars /\ WF_position(RunStep)

-----------------------------------------------------------------------------
(* Properties of Run. *)

Done == pc = "done"

(* the kinds of the errors of a list *)
Kinds(errs) == {errs[i].kind : i \in 1..Len(errs)}

NonBlocking == {"runtime_warning", "cycle_detected"}

(* the status rule as the documentation states it, on a set of kinds *)
StatusRule(kinds) ==
    IF "type_mismatch" \in kinds THEN "INVALID"
    ELSE IF kinds \cap {"missing_required", "attestation_incomplete"} # {}
    THEN "INCOMPLETE"
    ELSE IF "constraint_violation" \in kinds THEN "INVALID"
    ELSE "READY"

(* C7: the status Run returns is INVALID when the output errors hold a     *)
(* type_mismatch, else INCOMPLETE when they hold a missing_required or an  *)
(* attestation_incomplete, else INVALID when they hold a                   *)
(* constraint_violation, else READY; the errors of kind runtime_warning    *)
(* and cycle_detected can be left out without changing it.                 *)
C7_StatusRule ==
    Done => /\ schema.status = StatusRule(Kinds(schema.errors))
            /\ schema.status = StatusRule(Kinds(schema.errors) \ NonBlocking)

(* C7's case: a run that ends with a completeness error, a constraint      *)
(* violation and a non-blocking error, and no type mismatch.               *)
C7_Witness ==
    /\ Done
    /\ "constraint_violation" \in Kinds(schema.errors)
    /\ Kinds(schema.errors) \cap {"missing_required", "attestation_incomplete"} # {}
    /\ Kinds(schema.errors) \cap NonBlocking # {}
    /\ "type_mismatch" \notin Kinds(schema.errors)
    /\ schema.status = "INCOMPLETE"

(* whether routing selected a branch for this run, and its version *)
BranchSelected ==
    Len(schema.temporal_map) > 0 /\ selectBranch(schema, date) # 0
SelectedVersion == schema.temporal_map[selectBranch(schema, date)].logic_version

(* the run's input with the rules the output marks disabled taken out *)
InputWithoutDisabled ==
    LET kept == {i \in 1..Len(input.logic_tree) : ~schema.logic_tree[i].disabled}
        F[i \in 0..Len(input.logic_tree)] ==
            IF i = 0 THEN <<>>
            ELSE IF i \in kept THEN Append(F[i - 1], input.logic_tree[i])
            ELSE F[i - 1]
    IN  [input EXCEPT !.logic_tree = F[Len(input.logic_tree)]]

(* what a caller can observe of a rule's action in a result *)
Observable(S) ==
    [definitions |-> S.definitions, errors |-> S.errors, status |-> S.status]

(* C8: when routing selected a branch with version V, every rule whose     *)
(* logic_version is non-empty and differs from V is disabled in the        *)
(* output, and the output's definitions (values and UI attributes), errors *)
(* and status are those of running the input with the disabled rules       *)
(* removed: no action of a disabled rule shows.                            *)
C8_TemporalInactivity ==
    Done /\ BranchSelected =>
        /\ \A i \in 1..Len(schema.logic_tree) :
              schema.logic_tree[i].logic_version \notin {"", SelectedVersion}
                  => schema.logic_tree[i].disabled
        /\ \E ord \in Orders :
              Observable(schema) = Observable(Run(InputWithoutDisabled, date, ord))

(* C8's case: a branch was selected, a rule of another version whose       *)
(* condition holds was disabled, and a rule of the selected version ran.   *)
C8_Witness ==
    /\ Done
    /\ BranchSelected
    /\ \E i \in 1..Len(schema.logic_tree) :
          /\ schema.logic_tree[i].disabled
          /\ schema.logic_tree[i].logic_version \notin {"", SelectedVersion}
          /\ schema.logic_tree[i].when = True
    /\ \E i \in 1..Len(schema.logic_tree) :
          /\ schema.logic_tree[i].logic_version = SelectedVersion
          /\ ~schema.logic_tree[i].disabled
    /\ schema.errors # <<>>

(* an error as C1 compares it: by field, rule, kind and message *)
ErrorKey(e) == <<e.field_id, e.rule_id, e.kind, e.message>>

(* the multiset of a list of errors *)
ErrorBag(errs) ==
    [k \in {ErrorKey(errs[i]) : i \in 1..Len(errs)} |->
        Cardinality({i \in 1..Len(errs) : ErrorKey(errs[i]) = k})]

(* the mapping from definition name to value *)
Values(S) == [id \in DOMAIN S.definitions |-> S.definitions[id].value]

(* C1: evaluating the output of a Run again at the same instant gives the  *)
(* same status, the same mapping from definition name to value and the     *)
(* same multiset of errors as the first evaluation.                        *)
C1_Idempotent ==
    Done /\ runs = 2 =>
        /\ schema.status = firstOut.status
        /\ Values(schema) = Values(firstOut)
        /\ ErrorBag(schema.errors) = ErrorBag(firstOut.errors)

(* the value of an expression against the definitions of a document *)
ValueIn(S, expr) == resolve(expr, S, Ctx(<<>>)).v

(* C9: when Run returns, the value stored under every derived name equals  *)
(* the value of its expression against the returned document.              *)
C9_DerivedCurrent ==
    Done =>
        \A n \in DOMAIN schema.derived :
            schema.derived[n] # NoExpr =>
                schema.definitions[n].value = ValueIn(schema, schema.derived[n])

(* whether a present, non-array value fits a declared type *)
Compatible(type, value) ==
    CASE type \in {"string", "select"}   -> value.t = "str"
      [] type \in {"number", "currency"} -> value.t = "num"
      [] type \in {"boolean", "attestation"} -> value.t = "bool"
      [] type = "date" -> parseDateOk(value)
      [] OTHER -> TRUE

(* C10: when Run returns, every definition whose value is present, is not  *)
(* an array and does not fit its declared type has a type_mismatch error   *)
(* recorded for it.                                                        *)
C10_TypeChecked ==
    Done =>
        \A id \in DOMAIN schema.definitions :
            LET def == schema.definitions[id]
            IN  ~IsNil(def.value) /\ ~isSlice(def.value)
                  /\ ~Compatible(def.type, def.value)
                => \E i \in 1..Len(schema.errors) :
                      /\ schema.errors[i].kind = "type_mismatch"
                      /\ schema.errors[i].field_id = id

(* the stages of Run in which the rule pass is under way or over *)
InOrAfterRules == pc \in {"rules", "derived2", "validate", "attest", "finish", "done"}

(* the fired rule before position p that last assigned field k, 0 if none *)
LastWriter(p, k) ==
    LET writers == {j \in 1..(p - 1) :
                      rulePass[j].fired /\ k \in DOMAIN schema.logic_tree[j].then.set}
    IN  IF writers = {} THEN 0 ELSE CHOOSE j \in writers : \A w \in writers : w <= j

(* C11: the rule pass takes the positions of logic_tree in declaration     *)
(* order, each once: the positions before the loop's position have been    *)
(* taken exactly once, each for its own rule, and no later one has been    *)
(* taken.  The condition at a position was evaluated against the document  *)
(* the position before it left, and a rule fired exactly when that         *)
(* condition was truthy; that document holds, for every field an earlier   *)
(* fired rule assigned, the value the last such rule wrote.                *)
C11_DeclarationOrder ==
    InOrAfterRules =>
        /\ Len(rulePass) = Len(schema.logic_tree)
        /\ \A p \in 1..Len(rulePass) :
              /\ rulePass[p].evals = IF p < ruleIdx THEN 1 ELSE 0
              /\ p < ruleIdx =>
                    /\ rulePass[p].rule = p
                    /\ rulePass[p].fired =
                          (/\ rulePass[p].evaluated
                           /\ isTruthy(ValueIn(rulePass[p].saw, schema.logic_tree[p].when)))
                    /\ p > 1 => rulePass[p].saw = rulePass[p - 1].post
                    /\ \A k \in DOMAIN rulePass[p].saw.definitions :
                          LastWriter(p, k) # 0 =>
                              rulePass[p].saw.definitions[k].value
                                = rulePass[LastWriter(p, k)].post.definitions[k].value

(* C11's case: y is assigned by the first rule, the second rule's          *)
(* condition on y holds because of it, and the third rule assigns y again  *)
(* after the second has read it.                                           *)
C11_Witness ==
    /\ Done
    /\ Len(rulePass) = 3
    /\ schema.logic_tree[2].id = "seen"
    /\ \A p \in 1..3 : rulePass[p].fired
    /\ rulePass[2].saw.definitions["y"].value = Num(1)
    /\ schema.definitions["y"].value = Str("c")

(* the ids of the rules that fired and assigned field k, in the order of   *)
(* their firing                                                            *)
RuleWriters(k) ==
    LET F[p \in 0..Len(rulePass)] ==
          IF p = 0 THEN <<>>
          ELSE IF rulePass[p].fired /\ k \in DOMAIN schema.logic_tree[p].then.set
          THEN Append(F[p - 1], schema.logic_tree[p].id)
          ELSE F[p - 1]
    IN  F[Len(rulePass)]

(* the ids under which the on_sign actions of the signed attestations      *)
(* assigned field k, the attestations taken in the order ord               *)
SignWriters(k, ord) ==
    LET signers == SelectSeq(Keys(schema.attestations, ord),
                     LAMBDA id : /\ schema.attestations[id].signed
                                 /\ k \in DOMAIN schema.attestations[id].on_sign.set)
    IN  [i \in 1..Len(signers) |-> "attestation_" \o signers[i]]

(* the cycle_detected errors the output holds for field k: the reporting   *)
(* writer and the message, in order                                        *)
CyclesFor(k) ==
    LET hits == SelectSeq(schema.errors,
                          LAMBDA e : e.kind = "cycle_detected" /\ e.field_id = k)
    IN  [i \in 1..Len(hits) |-> <<hits[i].rule_id, hits[i].message>>]

(* one error for every writer of k that follows a writer of another id *)
CyclesBetween(k, w) ==
    LET F[i \in 1..Len(w)] ==
          IF i = 1 THEN <<>>
          ELSE IF w[i] # w[i - 1]
          THEN Append(F[i - 1], <<w[i], CycleMessage(k, w[i - 1], w[i])>>)
          ELSE F[i - 1]
    IN  IF w = <<>> THEN <<>> ELSE F[Len(w)]

(* C12 as the specification words it: every two distinct fired rules that  *)
(* assign the same field are named together by a cycle_detected error for  *)
(* the field, the status is that of the other errors, and a field assigned *)
(* by one rule only has no cycle_detected error.                           *)
C12_EveryPairReported ==
    Done =>
        /\ schema.status = StatusRule(Kinds(schema.errors) \ {"cycle_detected"})
        /\ \A k \in DOMAIN schema.definitions :
              LET w == RuleWriters(k)
              IN  /\ \A i, j \in 1..Len(w) :
                        i < j /\ w[i] # w[j] =>
                            \E n \in 1..Len(CyclesFor(k)) :
                                CyclesFor(k)[n][2] = CycleMessage(k, w[i], w[j])
                  /\ Len(w) <= 1 => CyclesFor(k) = <<>>

(* C12: the cycle_detected errors of a field are one for every assignment  *)
(* that follows an assignment under another id, naming the previous writer *)
(* and the current one, where the writers are the fired rules that assign  *)
(* the field, in declaration order, followed by the on_sign actions of the *)
(* signed attestations (under the id attestation_<id>); the status is the  *)
(* one the other errors determine.                                         *)
C12_CycleBetweenWriters ==
    Done =>
        /\ schema.status = StatusRule(Kinds(schema.errors) \ {"cycle_detected"})
        /\ \A k \in DOMAIN schema.definitions :
              \E ord \in Orders :
                  CyclesFor(k) = CyclesBetween(k, RuleWriters(k) \o SignWriters(k, ord))

(* C12's case: three rules assigned y in turn; the errors name the first   *)
(* with the second and the second with the third, and none names the first *)
(* with the third.                                                         *)
C12_Witness ==
    /\ Done
    /\ RuleWriters("y") = <<"a", "b", "c">>
    /\ CyclesFor("y") = << <<"b", CycleMessage("y", "a", "b")>>,
                           <<"c", CycleMessage("y", "b", "c")>> >>
    /\ schema.status = "READY"

(* every derived name of S is defined and holds the value of its           *)
(* expression against S                                                    *)
DerivedCurrent(S) ==
    \A n \in DOMAIN S.derived :
        S.derived[n] # NoExpr =>
            /\ n \in DOMAIN S.definitions
            /\ S.definitions[n].value = ValueIn(S, S.derived[n])

(* the document the last rule of the pass left *)
AfterRules == rulePass[Len(rulePass)].post

(* the order of the passes: when the first rule condition is about to be   *)
(* evaluated a derived pass has completed, and when validation starts      *)
(* every rule has been taken and a derived pass has run on what the rules  *)
(* left, so the derived values validated are those of the rules' result.   *)
PassesBracketRules ==
    /\ pc = "rules" /\ ruleIdx = 1 => DerivedCurrent(schema)
    /\ pc = "validate" =>
          /\ \A p \in 1..Len(rulePass) : rulePass[p].evals = 1
          /\ DerivedCurrent(schema)
          /\ Len(rulePass) > 0 =>
                \A n \in DOMAIN schema.derived :
                    schema.definitions[n].value = ValueIn(AfterRules, schema.derived[n])

(* C13: the passes bracket the rules, and the derived values Run returns   *)
(* are those of the document the rule pass left: each equals its           *)
(* expression evaluated against that document.                             *)
C13_DerivedBracketRules ==
    /\ PassesBracketRules
    /\ Done /\ Len(rulePass) > 0 =>
          \A n \in DOMAIN schema.derived :
              schema.definitions[n].value = ValueIn(AfterRules, schema.derived[n])

(* Run has returned: a document, or the error of a recovered panic *)
Returned == pc \in {"done", "failed"}

(* C14: every call of Run returns: from its entry it reaches its return,   *)
(* with a document or with an error.                                       *)
C14_Terminates == (pc = "start") ~> Returned

(* C14's case: Run returned on a document whose derived fields d and y     *)
(* refer to each other and whose rule inc wrote the field x that its own   *)
(* condition reads.                                                        *)
C14_Witness ==
    /\ Done
    /\ DOMAIN schema.derived = {"d", "y"}
    /\ \E i \in 1..Len(schema.errors) :
          /\ schema.errors[i].kind = "cycle_detected"
          /\ schema.errors[i].field_id = ""
    /\ \E p \in 1..Len(rulePass) :
          rulePass[p].fired /\ schema.logic_tree[p].id = "inc"

(* the stage that follows each stage of Run *)
StageAfter ==
    [st \in Running |->
        CASE st = "start" -> {"route"}
          [] st = "route" -> {"derived1"}
          [] st = "derived1" -> {"rules"}
          [] st = "rules" -> {"rules", "derived2"}
          [] st = "derived2" -> {"validate"}
          [] st = "validate" -> {"attest"}
          [] st = "attest" -> {"finish"}
          [] st = "finish" -> {"done"}]

IsPrefix(a, b) == Len(a) <= Len(b) /\ SubSeq(b, 1, Len(a)) = a

HasError(errs, f, r, k) ==
    \E i \in 1..Len(errs) :
        errs[i].field_id = f /\ errs[i].rule_id = r /\ errs[i].kind = k

Statuses == {"READY", "INCOMPLETE", "INVALID"}

(* one step of a call of Run that does not end in the error result: the    *)
(* next stage follows, the errors there were are kept, and the stage has   *)
(* added the errors of everything it had to look at                        *)
StageRan ==
    /\ pc' \in StageAfter[pc]
    /\ pc # "start" => IsPrefix(errors, errors')
    /\ pc = "rules" /\ pc' = "rules" =>
          /\ ruleIdx <= Len(schema.logic_tree)
          /\ ruleIdx' = ruleIdx + 1
          /\ rulePass'[ruleIdx].evaluated = ~schema.logic_tree[ruleIdx].disabled
          /\ LET rule == schema.logic_tree[ruleIdx]
             IN  (firesHere /\ rule.then.error_msg # "") =>
                    /\ Len(errors') > Len(errors)
                    /\ errors'[Len(errors')].rule_id = rule.id
                    /\ errors'[Len(errors')].message = rule.then.error_msg
    /\ pc = "rules" /\ pc' = "derived2" => ruleIdx > Len(schema.logic_tree)
    /\ pc = "validate" =>
          \A id \in DOMAIN schema.definitions :
              LET def == schema.definitions[id]
              IN  (~def.nil /\ def.required /\ IsNil(def.value)) =>
                     HasError(errors', id, "", "missing_required")
    /\ pc = "attest" =>
          \A id \in DOMAIN schema.attestations :
              LET att == schema.attestations[id]
              IN  (att.required /\ ~att.signed) =>
                     HasError(errors', id, "", "attestation_incomplete")
    /\ pc = "finish" =>
          /\ schema'.errors = errors
          /\ schema'.status \in Statuses

(* C15: a call of Run goes through every stage in turn, each stage adding  *)
(* its errors to the ones before it (every rule that is not disabled is    *)
(* evaluated, every definition validated, every attestation checked, the   *)
(* status determined and the errors returned with it), unless the call     *)
(* ends with the error result and no document.                             *)
C15_NeverStopsAtAnError ==
    [][IF pc \in Running
       THEN StageRan \/ (pc' = "failed" /\ schema' = NoDoc)
       ELSE TRUE]_vars

(* C15's case: Run returned a document of two definitions with the error   *)
(* of a rule and, after it, the error of a missing required field.         *)
C15_Witness ==
    /\ Done
    /\ DOMAIN schema.definitions = {"x", "y"}
    /\ HasError(schema.errors, "y", "", "missing_required")
    /\ \E i \in 1..Len(schema.errors) : schema.errors[i].rule_id = "err"
    /\ schema.status \in Statuses

(* C16: for a fixed document and instant Run yields the same definitions,  *)
(* the same status and the same errors in the same order, in whatever order *)
(* the ranges over its maps visit their entries.                           *)
C16_SameInEveryOrder ==
    (Done /\ runs = 1) =>
        \A ord \in Orders :
            Observable(schema) = Observable(Run(input, date, ord))

(* the range of a branch contains the instant t: from its start date to   *)
(* its end date, both included, or without end                             *)
Contains(br, t) ==
    /\ DateTable[br.start.s] <= t
    /\ br.end # Null => t <= DateTable[br.end.s]

Routed == pc \in (Running \ {"start", "route"}) \cup {"done"}

(* C17: routing selects the first branch of the temporal map whose range,  *)
(* both ends included and a missing end unbounded, contains the instant,   *)
(* and none only if no range contains it; the rules of the other versions  *)
(* are the ones it disables.                                               *)
C17_FirstContainingBranch ==
    (Routed /\ Len(schema.temporal_map) > 0) =>
        LET tm == schema.temporal_map
            b == selectBranch(schema, date)
        IN  /\ b = 0 => \A j \in 1..Len(tm) : ~Contains(tm[j], date)
            /\ b # 0 =>
                  /\ Contains(tm[b], date)
                  /\ \A j \in 1..(b - 1) : ~Contains(tm[j], date)
            /\ \A i \in 1..Len(schema.logic_tree) :
                  LET rule == schema.logic_tree[i]
                  IN  rule.logic_version # "" =>
                         (rule.disabled <=>
                            \E j \in 1..Len(tm) :
                               /\ Contains(tm[j], date)
                               /\ \A k \in 1..(j - 1) : ~Contains(tm[k], date)
                               /\ tm[j].logic_version # rule.logic_version)

(* C17's case: the instant is the end date of the first branch, which is   *)
(* selected, and the rule of the second branch's version is disabled.      *)
C17_Witness ==
    /\ Done
    /\ Len(schema.temporal_map) = 2
    /\ schema.temporal_map[1].end # Null
    /\ date = DateTable[schema.temporal_map[1].end.s]
    /\ Contains(schema.temporal_map[2], date)
    /\ selectBranch(schema, date) = 1
    /\ \E i \in 1..Len(schema.logic_tree) :
          schema.logic_tree[i].logic_version = "v2" /\ schema.logic_tree[i].disabled

(* C18: a rule with no logic_version is never skipped: when the rule pass  *)
(* comes to it, its condition is evaluated, and its action is applied      *)
(* exactly when the condition is truthy on the document as it then is.     *)
C18_UnversionedAlwaysActive ==
    \A p \in 1..Len(rulePass) :
        (rulePass[p].rule # 0 /\ schema # NoDoc
            /\ schema.logic_tree[p].logic_version = "") =>
                /\ rulePass[p].evaluated
                /\ rulePass[p].fired <=>
                      isTruthy(resolveE([Eng EXCEPT !.schema = rulePass[p].saw],
                                        schema.logic_tree[p].when).v)

(* the ranges of two branches have an instant in common *)
Overlap(a, b) == \E t \in Dates : Contains(a, t) /\ Contains(b, t)

HasMessage(errs, m) == \E i \in 1..Len(errs) : errs[i].message = m

(* C19: Run records an error for each branch of the temporal map whose     *)
(* start equals its end and for each pair of branches whose ranges         *)
(* overlap, next to each other in the map or not, and still returns a      *)
(* document with a status.                                                 *)
C19_EveryOverlapReported ==
    (Done /\ Len(schema.temporal_map) > 0) =>
        LET tm == schema.temporal_map
        IN  /\ schema.status \in Statuses
            /\ \A i \in 1..Len(tm) :
                  tm[i].start = tm[i].end =>
                     HasMessage(schema.errors,
                        "Temporal branch " \o ToString(i - 1)
                           \o " has same start and end date '" \o tm[i].start.s
                           \o "' (invalid range)")
            /\ \A i \in 1..Len(tm) : \A j \in (i + 1)..Len(tm) :
                  Overlap(tm[i], tm[j]) =>
                     HasMessage(schema.errors,
                        "Temporal branch " \o ToString(j - 1)
                           \o " overlaps with branch " \o ToString(i - 1)
                           \o " (ranges must not overlap)")

(* how many times the error e stands in the list errs *)
Count(errs, e) == Cardinality({i \in 1..Len(errs) : errs[i] = e})

(* the rule at position p has an action with a message and no kind *)
PlainErrorRule(S, p) ==
    S.logic_tree[p].then.error_msg # "" /\ S.logic_tree[p].then.error_kind = ""

(* the error the rule at position p of S gives when it fires *)
RuleError(S, p) ==
    Err("", S.logic_tree[p].id, "constraint_violation",
        S.logic_tree[p].then.error_msg, S.logic_tree[p].law_ref)

RECURSIVE Refs(_, _)
(* the derived names of S that the var nodes of an expression name *)
Refs(node, S) ==
    IF node.op = "var"
    THEN IF node.path # <<>> /\ node.path[1] \in DOMAIN S.derived
         THEN {node.path[1]} ELSE {}
    ELSE UNION {Refs(node.args[i], S) : i \in 1..Len(node.args)}

(* the derived name the expression of n refers to, "" when none *)
TheRef(S, n) ==
    IF Refs(S.derived[n], S) = {} THEN ""
    ELSE CHOOSE m \in Refs(S.derived[n], S) : TRUE

RECURSIVE Reentered(_, _, _)
(* the name that is referred to while its own expression is being          *)
(* evaluated, following the references from cur with the names of `stack`  *)
(* under evaluation; "" when the references end                            *)
Reentered(S, stack, cur) ==
    IF cur = "" THEN ""
    ELSE IF cur \in stack THEN cur
    ELSE Reentered(S, stack \cup {cur}, TheRef(S, cur))

CycleErrors(errs) == SelectSeq(errs, LAMBDA e : e.kind = "cycle_detected")

DerivedCycleError(n) ==
    Err("", "", "cycle_detected",
        "Circular dependency detected in derived field '" \o n \o "'", "")

BeforeDerivedPass == pc \in {"derived1", "derived2"}

(* C22: while the derived pass evaluates the expression of n, a reference  *)
(* to a derived name gives cycle_detected exactly when that name's         *)
(* expression is under evaluation, the one the pass itself is evaluating   *)
(* included: the pass records one error, on the first name re-entered, and *)
(* none when no name is re-entered, however often a name is read.          *)
C22_CycleExactlyOnReentry ==
    BeforeDerivedPass =>
        \A n \in DOMAIN schema.derived :
            LET r == resolve(schema.derived[n], schema, Ctx(<<>>))
                m == Reentered(schema, {n}, TheRef(schema, n))
            IN  /\ r.c.inProgress = {}
                /\ CycleErrors(r.c.errors)
                      = IF m = "" THEN <<>> ELSE <<DerivedCycleError(m)>>

(* C23: a derived field whose expression refers to its own name gets the   *)
(* value its definition held before, and no cycle_detected error is        *)
(* recorded.                                                               *)
C23_SelfReferenceIgnored ==
    (Done /\ runs = 1 /\ DOMAIN schema.derived = {"d"}
        /\ schema.derived["d"] = V("d") /\ "d" \in DOMAIN input.definitions) =>
            /\ schema.definitions["d"].value = input.definitions["d"].value
            /\ CycleErrors(schema.errors) = <<>>

Iterations == {"some", "all", "none"}

(* the rule pass is about to evaluate the condition of a rule *)
AtRule == pc = "rules" /\ ruleIdx <= Len(schema.logic_tree)

(* a some/all/none over an array of literals: every variable of the        *)
(* expression stands inside the predicate                                  *)
TopIteration(node) ==
    /\ node.op \in Iterations
    /\ Len(node.args) = 2
    /\ node.args[1].op = "arr"
    /\ \A i \in 1..Len(node.args[1].args) : node.args[1].args[i].op = "lit"

(* the names of the roots an expression reads that are neither derived     *)
(* fields nor definitions of S                                             *)
RECURSIVE MissingRoots(_, _)
MissingRoots(node, S) ==
    IF node.op = "var"
    THEN IF node.path # <<>>
            /\ node.path[1] \notin DOMAIN S.derived \cup DOMAIN S.definitions
         THEN {node.path[1]} ELSE {}
    ELSE UNION {MissingRoots(node.args[i], S) : i \in 1..Len(node.args)}

UndefinedWarning(name) ==
    Err("", "", "runtime_warning",
        "Undefined variable '" \o name \o "' in logic expression", "")

(* C24: a reference to a root that is neither a derived field nor a        *)
(* definition resolves to null, and gives a runtime_warning if and only if *)
(* it is not evaluated inside the predicate of a some/all/none, whatever   *)
(* the element: a comparison that reads such a root directly warns, and a  *)
(* some/all/none over literals whose predicate reads it does not.          *)
C24_WarningOutsideIterationOnly ==
    AtRule =>
        LET when == schema.logic_tree[ruleIdx].when
            r == resolve(when, schema, Ctx(<<>>))
        IN  /\ \A name \in MissingRoots(when, schema) :
                  resolve(V(name), schema, Ctx(<<>>)).v = Null
            /\ (when.op = "==" /\ MissingRoots(when, schema) # {}) =>
                  \E name \in MissingRoots(when, schema) :
                      Count(r.c.errors, UndefinedWarning(name)) >= 1
            /\ TopIteration(when) =>
                  \A name \in MissingRoots(when, schema) :
                      Count(r.c.errors, UndefinedWarning(name)) = 0

RECURSIVE Sem(_, _, _)
(* the value of an expression over the definitions of S when the empty     *)
(* path denotes the element of the innermost enclosing some/all/none, elem *)
(* at the outside                                                          *)
Sem(node, S, elem) ==
    LET arg(i) == IF i <= Len(node.args) THEN Sem(node.args[i], S, elem) ELSE Null
        holds(x) == isTruthy(Sem(node.args[2], S, x))
    IN  CASE node.op = "lit" -> node.v
          [] node.op = "arr" -> Arr([i \in 1..Len(node.args) |-> arg(i)])
          [] node.op = "var" ->
                IF node.path = <<>> THEN elem
                ELSE IF node.path[1] \in DOMAIN S.definitions
                THEN accessPath(S.definitions[node.path[1]].value, Tail(node.path))
                ELSE Null
          [] node.op = "==" -> Bool(compareEqual(arg(1), arg(2)))
          [] node.op = "and" ->
                Bool(\A i \in 1..Len(node.args) : isTruthy(arg(i)))
          [] node.op = "some" ->
                Bool(arg(1).t = "arr" /\ \E i \in 1..Len(arg(1).a) : holds(arg(1).a[i]))
          [] node.op = "all" ->
                Bool(arg(1).t = "arr" /\ \A i \in 1..Len(arg(1).a) : holds(arg(1).a[i]))
          [] node.op = "none" ->
                Bool(arg(1).t = "arr" /\ \A i \in 1..Len(arg(1).a) : ~holds(arg(1).a[i]))
          [] OTHER -> Null

RECURSIVE UsesIteration(_)
UsesIteration(node) ==
    \/ node.op \in Iterations
    \/ \E i \in 1..Len(node.args) : UsesIteration(node.args[i])

(* C25: after a some/all/none returns, the current element is what it was  *)
(* before: the empty path inside an inner predicate denotes the inner      *)
(* element, after the inner operator it denotes the outer element again,   *)
(* and after the outermost operator there is no current element.           *)
C25_ElementRestored ==
    (AtRule /\ UsesIteration(schema.logic_tree[ruleIdx].when)) =>
        LET when == schema.logic_tree[ruleIdx].when
            r == resolve(when, schema, Ctx(<<>>))
        IN  /\ r.c.cur = Null
            /\ r.v = Sem(when, schema, Null)

(* C25's case: the rule nest has fired: its condition holds only for the   *)
(* outer element 2, read after the inner all over <<3>> has returned.      *)
C25_Witness ==
    /\ Done
    /\ \E p \in 1..Len(rulePass) :
          rulePass[p].fired /\ schema.logic_tree[p].id = "nest"
    /\ "y" \in DOMAIN schema.definitions
    /\ schema.definitions["y"].value = Str("nested")

-----------------------------------------------------------------------------
(* Verify: engine.go.  json.Marshal and json.Unmarshal between the steps   *)
(* carry every field of the model's documents over unchanged (a nil value  *)
(* is omitted and read back as nil; a set *bool is written and read back). *)

DefaultMaxIterations == 100

(* VerifyIssue *)
Issue(code, f, expected, claimed) ==
    [code |-> code, field_id |-> f, expected |-> expected, claimed |-> claimed]

(* the effective date Verify extracts: valid_from when it parses, else     *)
(* time.Now()                                                              *)
effectiveDate(S, clock) ==
    IF S.valid_from # "" /\ parseDateOk(Str(S.valid_from))
    THEN parseDateOf(Str(S.valid_from))
    ELSE clock

(* getVisibleEditableFields without its readonly test *)
getVisibleFields(S) ==
    {id \in DOMAIN S.definitions :
        ~S.definitions[id].nil /\ S.definitions[id].visible = Bool(TRUE)}

(* getVisibleEditableFields *)
getVisibleEditableFields(S) ==
    {id \in DOMAIN S.definitions :
        /\ ~S.definitions[id].nil
        /\ S.definitions[id].visible = Bool(TRUE)
        /\ ~S.definitions[id].readonly}

(* the names of the model in byte order, the order sort.Strings puts them  *)
(* in (a comma sorts before every letter)                                  *)
NameOrder == <<"a", "a,b", "b,c", "c", "d", "f", "sig", "t", "x", "y", "z">>

(* sort.Strings on a set of names *)
sortStrings(ids) == SelectSeq(NameOrder, LAMBDA id : id \in ids)

RECURSIVE Join(_, _)
(* strings.Join *)
Join(elems, sep) ==
    IF elems = <<>> THEN ""
    ELSE IF Len(elems) = 1 THEN elems[1]
    ELSE elems[1] \o sep \o Join(Tail(elems), sep)

(* the ids visibleFieldSet collects *)
VisibleNames(S) ==
    {id \in DOMAIN S.definitions :
        ~S.definitions[id].nil /\ S.definitions[id].visible = Bool(TRUE)}

(* visibleFieldSet *)
visibleFieldSet(S) == Join(sortStrings(VisibleNames(S)), ",")

(* Verify's two copy loops: values of the visible editable fields, then    *)
(* signed and evidence of the attestations both documents hold             *)
copySubmitted(cur, new) ==
    LET editable == getVisibleEditableFields(cur)
        defs == [id \in DOMAIN cur.definitions |->
                    IF id \in editable /\ id \in DOMAIN new.definitions
                       /\ ~new.definitions[id].nil
                    THEN [cur.definitions[id] EXCEPT
                             !.value = new.definitions[id].value]
                    ELSE cur.definitions[id]]
        atts == [id \in DOMAIN cur.attestations |->
                    IF id \in DOMAIN new.attestations
                    THEN [cur.attestations[id] EXCEPT
                             !.signed = new.attestations[id].signed,
                             !.evidence = new.attestations[id].evidence]
                    ELSE cur.attestations[id]]
    IN  [cur EXCEPT !.definitions = defs, !.attestations = atts]

(* validateFinalState, first loop: submitted names the result lacks *)
unknownFields(new, result, ord) ==
    LET ids == SelectSeq(Keys(new.definitions, ord),
                         LAMBDA id : id \notin DOMAIN result.definitions)
    IN  [i \in 1..Len(ids) |-> Issue("unknown_field", ids[i], Null, Null)]

RECURSIVE computedOver(_, _, _)
(* validateFinalState, second loop: the readonly fields of the result *)
computedOver(new, result, keys) ==
    IF keys = <<>> THEN <<>>
    ELSE LET id == keys[1]
             resultDef == result.definitions[id]
             here ==
               IF resultDef.nil \/ ~resultDef.readonly THEN <<>>
               ELSE IF id \notin DOMAIN new.definitions
               THEN <<Issue("computed_mismatch", id, resultDef.value, Null)>>
               ELSE IF ~compareEqual(new.definitions[id].value, resultDef.value)
               THEN <<Issue("computed_mismatch", id, resultDef.value,
                            new.definitions[id].value)>>
               ELSE <<>>
         IN  here \o computedOver(new, result, Tail(keys))

RECURSIVE attestationsOver(_, _, _)
(* validateFinalState, third loop: the required attestations of the result *)
attestationsOver(new, result, keys) ==
    IF keys = <<>> THEN <<>>
    ELSE LET id == keys[1]
             here ==
               IF ~result.attestations[id].required
                  \/ id \notin DOMAIN new.attestations THEN <<>>
               ELSE LET newAtt == new.attestations[id]
                    IN  IF ~newAtt.signed
                        THEN <<Issue("attestation_unsigned", id, Null, Null)>>
                        ELSE (IF newAtt.evidence.nil
                                 \/ newAtt.evidence.provider_audit_id = ""
                              THEN <<Issue("attestation_no_evidence", id, Null, Null)>>
                              ELSE <<>>)
                          \o (IF newAtt.evidence.nil \/ newAtt.evidence.timestamp = ""
                              THEN <<Issue("attestation_no_timestamp", id, Null, Null)>>
                              ELSE <<>>)
         IN  here \o attestationsOver(new, result, Tail(keys))

(* validateFinalState, last check: the status *)
statusIssue(new, result) ==
    IF new.status # result.status
    THEN <<Issue("status_mismatch", "", Str(result.status), Str(new.status))>>
    ELSE <<>>

(* VerifyResult *)
VerifyResult(issues, status, S) ==
    [valid |-> issues = <<>>, status |-> status, issues |-> issues, schema |-> S]

(* validateFinalState with its first loop left out *)
validateFinalStateKnownOnly(new, result, ord) ==
    VerifyResult(computedOver(new, result, Keys(result.definitions, ord))
                   \o attestationsOver(new, result, Keys(result.attestations, ord))
                   \o statusIssue(new, result),
                 result.status, result)

(* what Verify returns in place of a verdict: its deferred recover caught  *)
(* a panic, or its call of Run returned an error                           *)
internalError ==
    [valid |-> FALSE, status |-> "",
     issues |-> <<Issue("internal_error", "", Null, Null)>>, schema |-> NoDoc]

(* validateFinalState, second loop: newDef.Value on a submitted nil        *)
(* definition panics                                                       *)
comparePanics(new, result) ==
    \E id \in DOMAIN result.definitions \cap DOMAIN new.definitions :
        /\ ~result.definitions[id].nil
        /\ result.definitions[id].readonly
        /\ new.definitions[id].nil

(* validateFinalState *)
validateFinalState(new, result, ord) ==
    IF comparePanics(new, result) THEN internalError
    ELSE VerifyResult(unknownFields(new, result, ord)
                   \o computedOver(new, result, Keys(result.definitions, ord))
                   \o attestationsOver(new, result, Keys(result.attestations, ord))
                   \o statusIssue(new, result),
                 result.status, result)

(* the result Verify returns when its loop runs out *)
convergenceFailed ==
    [valid |-> FALSE, status |-> "",
     issues |-> <<Issue("convergence_failed", "", Null, Null)>>, schema |-> NoDoc]

(* the result Verify returns when its call of Run returned an error *)
runFailed == internalError

-----------------------------------------------------------------------------
(* The base documents Verify is checked on. *)

MaxIter == 2     \* largest iteration cap a caller passes (0: none passed)
MaxFills == 1    \* fields the user fills in before submitting

Hidden(def) == [def EXCEPT !.visible = Bool(FALSE)]
Shown(flag) == "visible" :> Bool(flag)
DPlus == "d" :> Op("+", <<V("x"), N(1)>>)
XOne == "x" :> Def("number", Num(1))
WithAtt(S, att) == [S EXCEPT !.attestations = "sig" :> att]

(* y is created once x has reached 3 *)
RLate == Rule("late", "", Op(">", <<V("x"), N(2)>>), SetAction("y" :> Lit(Str("a"))))
(* y is revealed once x is 1 *)
RReveal == Rule("reveal", "", Op("==", <<V("x"), N(1)>>), UIAction("y" :> Shown(TRUE)))
(* f flips on every evaluation and x is shown while f is 1 *)
RHide == Rule("hide", "", Op("==", <<V("f"), N(0)>>), UIAction("x" :> Shown(FALSE)))
RShow == Rule("show", "", Op("==", <<V("f"), N(1)>>), UIAction("x" :> Shown(TRUE)))
RFlip == Rule("flip", "", True, SetAction("f" :> Op("-", <<N(1), V("f")>>)))
(* f counts the evaluations *)
RCount == Rule("count", "", True, SetAction("f" :> Op("+", <<V("f"), N(1)>>)))
(* t is revealed; once t is 1 the pair "a,b", "c" gives way to "a", "b,c" *)
RAsk == Rule("ask", "", True, UIAction("t" :> Shown(TRUE)))
RSwap == Rule("swap", "", Op("==", <<V("t"), N(1)>>),
              UIAction(("a,b" :> Shown(FALSE)) @@ ("c" :> Shown(FALSE))
                         @@ ("a" :> Shown(TRUE)) @@ ("b,c" :> Shown(TRUE))))

VerifyBases ==
    { Schema(XOne, <<>>, DPlus),
      Schema(XOne, <<RInc>>, DPlus),
      Schema(XOne, <<RInc, RLate>>, <<>>),
      Schema("x" :> [Def("number", Null) EXCEPT !.required = TRUE], <<>>, DPlus),
      Schema("x" :> Hidden(Def("number", Num(1))), <<>>, <<>>),
      Schema(("x" :> Def("number", Null))
                @@ ("y" :> Hidden([Def("string", Null) EXCEPT !.required = TRUE])),
             <<RReveal>>, <<>>),
      Schema(XOne @@ ("f" :> [Def("number", Num(0)) EXCEPT !.readonly = TRUE]),
             <<RHide, RShow, RFlip>>, <<>>),
      Schema(XOne @@ ("f" :> [Def("number", Num(0)) EXCEPT !.readonly = TRUE]),
             <<RCount>>, <<>>),
      Schema(("a,b" :> Def("string", Null)) @@ ("c" :> Def("string", Null))
                @@ ("a" :> Hidden(Def("string", Null)))
                @@ ("b,c" :> Hidden(Def("string", Null)))
                @@ ("t" :> Hidden(Def("number", Null))),
             <<RAsk, RSwap>>, <<>>),
      WithAtt(Schema(XOne, <<>>, <<>>),
              Attestation(TRUE, TRUE, Evidence("audit-1", "2025-01-01"), NoAction)),
      WithAtt(Schema(XOne, <<>>, <<>>),
              Attestation(TRUE, TRUE, Evidence("audit-1", ""), NoAction)),
      WithAtt(Schema(XOne, <<>>, <<>>),
              Attestation(TRUE, TRUE, NoEvidence, NoAction)),
      WithAtt(Schema(XOne, <<>>, <<>>),
              Attestation(TRUE, FALSE, NoEvidence, NoAction)),
      WithAtt(Schema(XOne, <<>>, DPlus),
              Attestation(TRUE, TRUE, Evidence("audit-1", "2025-01-01"), OnSignBad)),
      [Schema(XOne, <<RV1, RV2>>, <<>>) EXCEPT
          !.valid_from = "2025-01-01",
          !.temporal_map = << Branch(Str("2024-01-01"), Str("2024-12-31"), "v1"),
                              Branch(Str("2025-01-01"), Null, "v2") >>],
      Schema("x" :> NilDef, <<RInc>>, <<>>) }

(* what time.Now() may return *)
Clock == {0, 4}
(* what a user types into a field *)
FillValues == {Num(1), Num(2), Str("a")}
(* what a tampered computed field is made to hold *)
TamperValues == {Num(2), Str("2"), Num(7), Null}
(* names an injected definition may carry *)
InjectNames == {"y", "z"}


-----------------------------------------------------------------------------
(* Verify as a state machine.  A client evaluates a base document, may     *)
(* fill in fields and evaluate again, and submits the result as it is,     *)
(* with a computed value replaced, or with a definition added; Verify then *)
(* replays it.  Every evaluation is a pass of Run's pipeline above: the    *)
(* caller hands it a document and takes the result when it is done.        *)

loopVars == <<maxIterations, iteration, currentJson, previousVisibleSet,
              prevResult, resultSchema, calls, vr>>
engineVars == <<schema, errors, fieldsSet, ruleIdx, rulePass>>

InitVerify ==
    /\ pc = "idle"
    /\ input = NoDoc
    /\ schema = NoDoc
    /\ errors = <<>>
    /\ fieldsSet = <<>>
    /\ ruleIdx = 1
    /\ rulePass = <<>>
    /\ runs = 0
    /\ firstOut = NoDoc
    /\ vpc = "evaluate"
    /\ base \in VerifyBases
    /\ now \in Clock
    /\ date = effectiveDate(base, now)
    /\ completed = NoDoc
    /\ maxIterations = 0
    /\ iteration = 0
    /\ currentJson = NoDoc
    /\ previousVisibleSet = ""
    /\ prevResult = NoDoc
    /\ resultSchema = NoDoc
    /\ calls = 0
    /\ submission = NoSubmission
    /\ vr = NoResult
    /\ LintIdle

(* the client evaluates the base document *)
Evaluate ==
    /\ vpc = "evaluate"
    /\ pc = "idle"
    /\ input' = base
    /\ pc' = "start"
    /\ vpc' = "evaluating"
    /\ UNCHANGED <<engineVars, loopVars, base, now, date, runs, firstOut,
                   completed, submission>>
    /\ UNCHANGED lintVars

(* the client takes the evaluated document *)
Evaluated ==
    /\ vpc = "evaluating"
    /\ pc = "done"
    /\ completed' = schema
    /\ pc' = "idle"
    /\ vpc' = "edit"
    /\ UNCHANGED <<engineVars, loopVars, base, now, date, runs, firstOut,
                   input, submission>>
    /\ UNCHANGED lintVars

(* the evaluation failed: the client has no result and submits the base   *)
(* document itself                                                         *)
EvaluationFailed ==
    /\ vpc = "evaluating"
    /\ pc = "failed"
    /\ completed' = base
    /\ submission' = [NoSubmission EXCEPT !.kind = "unevaluated", !.fills = runs]
    /\ pc' = "idle"
    /\ vpc' = "start"
    /\ UNCHANGED <<engineVars, loopVars, base, now, date, runs, firstOut, input>>
    /\ UNCHANGED lintVars

(* the user fills in a visible editable field and the client evaluates *)
Fill ==
    /\ vpc = "edit"
    /\ runs <= MaxFills
    /\ \E id \in getVisibleEditableFields(completed), v \in FillValues :
          input' = [completed EXCEPT !.definitions[id].value = v]
    /\ pc' = "start"
    /\ vpc' = "evaluating"
    /\ UNCHANGED <<engineVars, loopVars, base, now, date, runs, firstOut,
                   completed, submission>>
    /\ UNCHANGED lintVars

(* the client submits the document as evaluated *)
SubmitExact ==
    /\ vpc = "edit"
    /\ submission' = [NoSubmission EXCEPT !.kind = "exact", !.fills = runs - 1]
    /\ vpc' = "start"
    /\ UNCHANGED <<pc, input, engineVars, loopVars, base, now, date, firstOut,
                   runs, completed>>
    /\ UNCHANGED lintVars

(* the client replaces the value of a readonly field before submitting *)
SubmitTampered ==
    /\ vpc = "edit"
    /\ \E id \in DOMAIN completed.definitions, v \in TamperValues :
          /\ completed.definitions[id].readonly
          /\ v # completed.definitions[id].value
          /\ completed' = [completed EXCEPT !.definitions[id].value = v]
          /\ submission' = [kind |-> "tamper", field |-> id, value |-> v,
                            computed |-> completed.definitions[id].value,
                            fills |-> runs - 1]
    /\ vpc' = "start"
    /\ UNCHANGED <<pc, input, engineVars, loopVars, base, now, date, firstOut, runs>>
    /\ UNCHANGED lintVars

(* the client adds a definition under a name the base does not hold *)
SubmitInjected ==
    /\ vpc = "edit"
    /\ \E id \in InjectNames \ (DOMAIN base.definitions \cup DOMAIN completed.definitions) :
          /\ completed' = [completed EXCEPT
                              !.definitions = Put(@, id, Def("string", Str("hacked")))]
          /\ submission' = [NoSubmission EXCEPT !.kind = "inject", !.field = id,
                                                !.fills = runs - 1]
    /\ vpc' = "start"
    /\ UNCHANGED <<pc, input, engineVars, loopVars, base, now, date, firstOut, runs>>
    /\ UNCHANGED lintVars

(* the client submits the document without its attestations *)
SubmitOmitted ==
    /\ vpc = "edit"
    /\ DOMAIN completed.attestations # {}
    /\ completed' = [completed EXCEPT !.attestations = <<>>]
    /\ submission' = [NoSubmission EXCEPT !.kind = "omit", !.fills = runs - 1]
    /\ vpc' = "start"
    /\ UNCHANGED <<pc, input, engineVars, loopVars, base, now, date, firstOut, runs>>
    /\ UNCHANGED lintVars

(* the client claims a value for a field the evaluation hid, and shows it *)
SubmitHiddenClaim ==
    /\ vpc = "edit"
    /\ \E id \in DOMAIN completed.definitions, v \in FillValues :
          /\ ~completed.definitions[id].nil
          /\ completed.definitions[id].visible = Bool(FALSE)
          /\ v # completed.definitions[id].value
          /\ completed' = [completed EXCEPT !.definitions[id].value = v,
                                            !.definitions[id].visible = Bool(TRUE)]
          /\ submission' = [kind |-> "hidden", field |-> id, value |-> v,
                            computed |-> completed.definitions[id].value,
                            fills |-> runs - 1]
    /\ vpc' = "start"
    /\ UNCHANGED <<pc, input, engineVars, loopVars, base, now, date, firstOut, runs>>
    /\ UNCHANGED lintVars

(* Verify up to its loop: the cap, the effective date, the start state *)
VerifyStart ==
    /\ vpc = "start"
    /\ \E maxIter \in 0..MaxIter :
          maxIterations' = IF maxIter > 0 THEN maxIter ELSE DefaultMaxIterations
    /\ date' = effectiveDate(completed, now)
    /\ currentJson' = base
    /\ previousVisibleSet' = ""
    /\ iteration' = 0
    /\ vpc' = "loop"
    /\ UNCHANGED <<pc, input, engineVars, base, now, firstOut, runs, completed,
                   submission, prevResult, resultSchema, calls, vr>>
    /\ UNCHANGED lintVars

(* Verify's loop body down to its call of Run: the two copy loops *)
VerifyCall ==
    /\ vpc = "loop"
    /\ iteration < maxIterations
    /\ input' = copySubmitted(currentJson, completed)
    /\ pc' = "start"
    /\ calls' = calls + 1
    /\ vpc' = "running"
    /\ UNCHANGED <<engineVars, base, now, date, firstOut, runs, completed,
                   submission, maxIterations, iteration, currentJson,
                   previousVisibleSet, prevResult, resultSchema, vr>>
    /\ UNCHANGED lintVars

(* Verify's loop body after Run returned: compare the visible sets, and    *)
(* either return validateFinalState's result or go round again             *)
VerifyCompare ==
    /\ vpc = "running"
    /\ pc = "done"
    /\ pc' = "idle"
    /\ prevResult' = resultSchema
    /\ resultSchema' = schema
    /\ IF visibleFieldSet(schema) = previousVisibleSet
       THEN /\ \E ord \in Orders : vr' = validateFinalState(completed, schema, ord)
            /\ vpc' = "done"
            /\ UNCHANGED <<previousVisibleSet, currentJson, iteration>>
       ELSE /\ previousVisibleSet' = visibleFieldSet(schema)
            /\ currentJson' = schema
            /\ iteration' = iteration + 1
            /\ vpc' = "loop"
            /\ UNCHANGED vr
    /\ UNCHANGED <<input, engineVars, base, now, date, firstOut, runs, completed,
                   submission, maxIterations, calls>>
    /\ UNCHANGED lintVars

(* Verify's loop body after Run returned an error *)
VerifyRunFailed ==
    /\ vpc = "running"
    /\ pc = "failed"
    /\ pc' = "idle"
    /\ vr' = runFailed
    /\ vpc' = "done"
    /\ UNCHANGED <<input, engineVars, base, now, date, firstOut, runs, completed,
                   submission, maxIterations, iteration, currentJson,
                   previousVisibleSet, prevResult, resultSchema, calls>>
    /\ UNCHANGED lintVars

(* Verify after its loop ran out *)
VerifyExhausted ==
    /\ vpc = "loop"
    /\ iteration >= maxIterations
    /\ vr' = convergenceFailed
    /\ vpc' = "done"
    /\ UNCHANGED <<pc, input, engineVars, base, now, date, firstOut, runs,
                   completed, submission, maxIterations, iteration, currentJson,
                   previousVisibleSet, prevResult, resultSchema, calls>>
    /\ UNCHANGED lintVars

NextVerify ==
    \/ Evaluate
    \/ Materialize
    \/ Route
    \/ Derived1
    \/ Rules
    \/ RulesDone
    \/ Derived2
    \/ Validate
    \/ Attest
    \/ Finish
    \/ Evaluated
    \/ EvaluationFailed
    \/ Fill
    \/ SubmitExact
    \/ SubmitTampered
    \/ SubmitInjected
    \/ SubmitOmitted
    \/ SubmitHiddenClaim
    \/ VerifyStart
    \/ VerifyCall
    \/ VerifyCompare
    \/ VerifyRunFailed
    \/ VerifyExhausted

SpecVerify == InitVerify /\ [][NextVerify]_vars

-----------------------------------------------------------------------------
(* Properties of Verify. *)

VerifyDone == vpc = "done"

HasIssue(code) == \E i \in 1..Len(vr.issues) : vr.issues[i].code = code

HasIssueFor(code, id) ==
    \E i \in 1..Len(vr.issues) :
        vr.issues[i].code = code /\ vr.issues[i].field_id = id

(* the submitted document is the evaluation of the base, untouched *)
SubmittedAsEvaluated ==
    submission.kind = "exact" /\ submission.fills = 0 /\ completed = firstOut

(* C2: when the base evaluates to READY, Verify of that evaluation against *)
(* the base, at the same instant and with the default cap, is valid.       *)
C2_VerifyAfterEvaluate ==
    VerifyDone /\ SubmittedAsEvaluated /\ firstOut.status = "READY"
        /\ maxIterations = DefaultMaxIterations
      => vr.valid

(* C3: replacing the computed value c of a readonly field f of the         *)
(* evaluated document by a different value makes Verify invalid with a     *)
(* computed_mismatch issue for f whose expected value is c.                *)
C3_TamperDetected ==
    VerifyDone /\ submission.kind = "tamper" /\ submission.fills = 0
        /\ maxIterations = DefaultMaxIterations
      => /\ ~vr.valid
         /\ \E i \in 1..Len(vr.issues) :
               /\ vr.issues[i].code = "computed_mismatch"
               /\ vr.issues[i].field_id = submission.field
               /\ vr.issues[i].expected = submission.computed

(* C4 as the specification words it: a definition added under a name the   *)
(* base does not hold always draws an unknown_field issue.                 *)
C4_InjectionAlwaysReported ==
    VerifyDone /\ submission.kind = "inject" => HasIssue("unknown_field")

(* C4: when a definition is added under a name the base does not hold and  *)
(* the replay converges, Verify reports unknown_field for that name        *)
(* exactly when the replay's result holds no definition of that name (no   *)
(* rule, derived field or on_sign created it); when the replay does not    *)
(* converge the only issue is convergence_failed.                          *)
C4_InjectionReported ==
    VerifyDone /\ submission.kind = "inject" =>
        IF HasIssue("convergence_failed")
        THEN vr.issues = <<Issue("convergence_failed", "", Null, Null)>>
        ELSE HasIssueFor("unknown_field", submission.field)
                <=> submission.field \notin DOMAIN resultSchema.definitions

(* C4's case: an injected name is reported after a replay of two rounds *)
C4_Witness ==
    /\ VerifyDone
    /\ submission.kind = "inject"
    /\ calls >= 2
    /\ HasIssueFor("unknown_field", submission.field)
    /\ ~vr.valid

(* C5: Verify returns after at most maxIterations calls of Run, and when   *)
(* the set of visible names of no call equalled that of the call before    *)
(* it, the result is invalid with a convergence_failed issue.              *)
C5_ConvergenceBound ==
    VerifyDone =>
        /\ calls <= maxIterations
        /\ VisibleNames(resultSchema) # VisibleNames(prevResult)
              => ~vr.valid /\ HasIssue("convergence_failed")

(* C6: Verify returns a converged result only when the set of visible      *)
(* names of the last Run equals that of the Run before it (the empty set   *)
(* before the first).                                                      *)
C6_ConvergenceBySet ==
    VerifyDone /\ ~HasIssue("convergence_failed")
        => VisibleNames(resultSchema) = VisibleNames(prevResult)

(* C20: at the final-state comparison, every attestation the converged     *)
(* result requires and the completed document does not hold signed (one it *)
(* omits included) has an attestation_unsigned issue, and one it holds     *)
(* signed has attestation_no_evidence when provider_audit_id is missing    *)
(* and attestation_no_timestamp when timestamp is missing.                 *)
C20_AttestationIssues ==
    (VerifyDone /\ vr.schema # NoDoc) =>
        \A id \in DOMAIN vr.schema.attestations :
            vr.schema.attestations[id].required =>
                IF id \notin DOMAIN completed.attestations
                   \/ ~completed.attestations[id].signed
                THEN HasIssueFor("attestation_unsigned", id)
                ELSE LET ev == completed.attestations[id].evidence
                     IN  /\ (ev.nil \/ ev.provider_audit_id = "") =>
                               HasIssueFor("attestation_no_evidence", id)
                         /\ (ev.nil \/ ev.timestamp = "") =>
                               HasIssueFor("attestation_no_timestamp", id)

(* Verify has made an iteration's document and handed it to Run *)
Replaying == vpc = "running" /\ pc = "start"

(* a field of the replay document the user can see and type into *)
Editable(S, id) ==
    /\ ~S.definitions[id].nil
    /\ S.definitions[id].visible = Bool(TRUE)
    /\ ~S.definitions[id].readonly

(* the completed document claims for id a value the replay does not hold *)
ClaimsOther(id) ==
    /\ id \in DOMAIN completed.definitions
    /\ ~completed.definitions[id].nil
    /\ completed.definitions[id].value # currentJson.definitions[id].value

(* C27: the document an iteration of Verify hands to Run has the           *)
(* definitions of the replay document at the start of the iteration; a     *)
(* definition that differs from it is one that was visible and not         *)
(* readonly there, and differs only by holding the completed document's    *)
(* value; what the completed document claims for the other fields is not   *)
(* in it.                                                                  *)
C27_OnlyEditableValuesCopied ==
    Replaying =>
        /\ DOMAIN input.definitions = DOMAIN currentJson.definitions
        /\ \A id \in DOMAIN currentJson.definitions :
              IF Editable(currentJson, id) /\ ClaimsOther(id)
              THEN input.definitions[id] =
                      [currentJson.definitions[id] EXCEPT
                          !.value = completed.definitions[id].value]
              ELSE input.definitions[id] = currentJson.definitions[id]

C27_Witness ==
    /\ Replaying
    /\ iteration >= 1
    /\ \E id \in DOMAIN currentJson.definitions :
          /\ currentJson.definitions[id].readonly
          /\ ClaimsOther(id)
          /\ input.definitions[id].value = currentJson.definitions[id].value
    /\ \E id \in DOMAIN currentJson.definitions :
          /\ Editable(currentJson, id)
          /\ ClaimsOther(id)
          /\ input.definitions[id].value = completed.definitions[id].value

(* a hidden field's claimed value stays out of the replay *)
C27_HiddenClaimKeptOut ==
    /\ Replaying
    /\ submission.kind = "hidden"
    /\ currentJson.definitions[submission.field].visible = Bool(FALSE)
    /\ ClaimsOther(submission.field)
    /\ input.definitions[submission.field] = currentJson.definitions[submission.field]

(* the definitions this Run may write: the derived names, the targets of  *)
(* set in the rules that fired, and the targets of set in on_sign of the   *)
(* attestations that came signed                                           *)
Touched ==
    DOMAIN input.derived
        \cup UNION {DOMAIN schema.logic_tree[p].then.set :
                       p \in {q \in 1..Len(rulePass) : rulePass[q].fired}}
        \cup UNION {DOMAIN input.attestations[a].on_sign.set :
                       a \in {b \in DOMAIN input.attestations :
                                 input.attestations[b].signed}}

Falsy == {Bool(FALSE), Num(0), Str("")}

(* C30: Run returns every definition that is not a derived name, not set   *)
(* by a rule that fired and not set by on_sign of a signed attestation     *)
(* with the value it came with; false, 0 and "" come back as they are.     *)
C30_UntouchedValuesKept ==
    (Done /\ vpc = "idle") =>
        \A id \in DOMAIN input.definitions \ Touched :
            /\ id \in DOMAIN schema.definitions
            /\ schema.definitions[id].value = input.definitions[id].value

C30_Witness ==
    /\ Done /\ vpc = "idle"
    /\ \E p \in 1..Len(rulePass) : rulePass[p].fired
    /\ DOMAIN input.derived # {}
    /\ \E id \in DOMAIN input.definitions \ Touched :
          /\ input.definitions[id].value \in Falsy \ {Str("")}
          /\ schema.definitions[id].value = input.definitions[id].value
    /\ \E id \in DOMAIN input.definitions \ Touched :
          /\ input.definitions[id].value = Str("")
          /\ schema.definitions[id].value = Str("")

(* C28: when Verify returns valid, every definition of the completed       *)
(* document is in the converged result with the value claimed for it,      *)
(* whether the result hides the field or a rule assigned its value.        *)
C28_ValidMeansSameValues ==
    (VerifyDone /\ vr.valid) =>
        \A id \in DOMAIN completed.definitions :
            ~completed.definitions[id].nil =>
                /\ id \in DOMAIN vr.schema.definitions
                /\ vr.schema.definitions[id].value = completed.definitions[id].value

(* Verify declared convergence and returned validateFinalState's verdict *)
Converged == VerifyDone /\ vr.schema # NoDoc

(* one more replay step on the converged result: the copy loops, then Run  *)
(* at the same instant                                                     *)
ReplayOnce(ord) == Run(copySubmitted(vr.schema, completed), date, ord)

SameValues(A, B) ==
    /\ DOMAIN A.definitions = DOMAIN B.definitions
    /\ \A id \in DOMAIN A.definitions :
          A.definitions[id].value = B.definitions[id].value

(* C29: the result Verify converged on is a fixed point of the replay      *)
(* step: with the completed document's editable values and attestation     *)
(* states copied into it, Run at the same instant returns a document with  *)
(* the same visible fields, the same definition values and the same        *)
(* status.                                                                 *)
C29_ConvergedIsFixedPoint ==
    Converged =>
        \A ord \in Orders :
            LET again == ReplayOnce(ord)
            IN  /\ again # NoDoc
                /\ VisibleNames(again) = VisibleNames(vr.schema)
                /\ SameValues(again, vr.schema)
                /\ again.status = vr.schema.status

-----------------------------------------------------------------------------
(* lint: the static analysis of a document's derived fields. *)

LintIssue(severity, code, message, field_id) ==
    [severity |-> severity, code |-> code, message |-> message,
     field_id |-> field_id]

RECURSIVE collectVarRefs(_, _)
RECURSIVE collectItems(_, _)
(* collectVarRefs: refs is a Set, kept here in its insertion order; a var  *)
(* node adds the first segment of its path when that is not empty.         *)
collectVarRefs(node, refs) ==
    IF node.op = "var"
    THEN IF node.path = <<>> \/ node.path[1] = ""
              \/ (\E i \in 1..Len(refs) : refs[i] = node.path[1])
         THEN refs
         ELSE Append(refs, node.path[1])
    ELSE collectItems(node.args, refs)

collectItems(items, refs) ==
    IF items = <<>> THEN refs
    ELSE collectItems(Tail(items), collectVarRefs(Head(items), refs))

(* a graph that keeps the edge from a derived field to itself *)
graphWithSelfEdges(S) ==
    [name \in {n \in DOMAIN S.derived : S.derived[n] # NoExpr} |->
        SelectSeq(collectVarRefs(S.derived[name], <<>>),
                  LAMBDA ref : ref \in DOMAIN S.derived)]

(* checkDerivedCycles: the adjacency list; a derived field without eval    *)
(* has no entry, and only edges to other derived fields are kept.          *)
graph(S) ==
    [name \in {n \in DOMAIN S.derived : S.derived[n] # NoExpr} |->
        SelectSeq(collectVarRefs(S.derived[name], <<>>),
                  LAMBDA ref : ref \in DOMAIN S.derived /\ ref # name)]

RECURSIVE climb(_, _, _, _)
(* the while loop of dfs that walks the parents from the node back to the  *)
(* grey neighbour                                                          *)
climb(parent, neighbor, cur, cycle) ==
    IF cur = neighbor THEN cycle
    ELSE IF cur \notin DOMAIN parent \/ parent[cur] = neighbor THEN cycle
    ELSE climb(parent, neighbor, parent[cur], Append(cycle, parent[cur]))

RECURSIVE dfs(_, _, _)
RECURSIVE dfsEdges(_, _, _, _)
(* dfs: st carries the color map (0 white, 1 grey, 2 black), the parent    *)
(* map and the cycle found (empty while none is).                          *)
dfs(G, node, st) ==
    LET r == dfsEdges(G, node, IF node \in DOMAIN G THEN G[node] ELSE <<>>,
                      [st EXCEPT !.color[node] = 1])
    IN  IF r.cycle # <<>> THEN r ELSE [r EXCEPT !.color[node] = 2]

(* the loop of dfs over the edges of node *)
dfsEdges(G, node, edges, st) ==
    IF edges = <<>> THEN st
    ELSE LET neighbor == Head(edges)
         IN  IF st.color[neighbor] = 1
             THEN [st EXCEPT !.cycle =
                      Reverse(climb(st.parent, neighbor, node, <<neighbor, node>>))]
             ELSE IF st.color[neighbor] = 0
             THEN LET r == dfs(G, neighbor,
                               [st EXCEPT !.parent = (neighbor :> node) @@ @])
                  IN  IF r.cycle # <<>> THEN r
                      ELSE dfsEdges(G, node, Tail(edges), r)
             ELSE dfsEdges(G, node, Tail(edges), st)

RECURSIVE dfsFrom(_, _, _)
(* the loop of checkDerivedCycles over derivedNames: dfs from each name    *)
(* still white, stopping at the first cycle                                *)
dfsFrom(G, names, st) ==
    IF names = <<>> THEN st
    ELSE IF st.color[Head(names)] # 0 THEN dfsFrom(G, Tail(names), st)
    ELSE LET r == dfs(G, Head(names), st)
         IN  IF r.cycle # <<>> THEN r ELSE dfsFrom(G, Tail(names), r)

(* checkDerivedCycles: the issues it adds; ord is the order of the keys of *)
(* state_model.derived in the document.                                    *)
checkDerivedCycles(S, ord) ==
    LET derivedNames == SelectSeq(ord, LAMBDA n : n \in DOMAIN S.derived)
        st == dfsFrom(graph(S), derivedNames,
                      [color |-> [n \in DOMAIN S.derived |-> 0],
                       parent |-> <<>>, cycle |-> <<>>])
    IN  IF st.cycle = <<>> THEN <<>>
        ELSE <<LintIssue("error", "derived_circular_dependency",
                         "Circular dependency in derived fields: "
                             \o Join(st.cycle, " -> "),
                         st.cycle[1])>>

(* checkDerived: a derived field without eval is an error; then the cycles *)
checkDerived(S, ord) ==
    LET derivedNames == SelectSeq(ord, LAMBDA n : n \in DOMAIN S.derived)
        missing == SelectSeq(derivedNames, LAMBDA n : S.derived[n] = NoExpr)
    IN  [i \in 1..Len(missing) |->
            LintIssue("error", "derived_missing_eval",
                      "Derived field '" \o missing[i] \o "' has no eval expression",
                      missing[i])]
        \o checkDerivedCycles(S, ord)

(* lint: valid when no issue is an error *)
lint(S, ord) ==
    LET issues == checkDerived(S, ord)
    IN  [valid |-> ~\E i \in 1..Len(issues) : issues[i].severity = "error",
         issues |-> issues]

LintNames == {"a", "b", "c"}

(* the eval expressions drawn: none, a literal, a dotted path, and sums of *)
(* two references to derived fields or to the definition x                 *)
LintExprs ==
    {NoExpr, N(1), Var(<<"b", "k">>)}
        \cup {Op("+", <<V(m), V(n)>>) : m, n \in LintNames \cup {"x"}}

LintDocs ==
    UNION {{Schema(XOne, <<>>, dv) : dv \in [T -> LintExprs]} :
              T \in SUBSET LintNames}

LintOrders == Perms(LintNames)

InitLint ==
    /\ pc = "idle"
    /\ input = NoDoc
    /\ date = 0
    /\ schema = NoDoc
    /\ errors = <<>>
    /\ fieldsSet = <<>>
    /\ ruleIdx = 1
    /\ rulePass = <<>>
    /\ runs = 0
    /\ firstOut = NoDoc
    /\ VerifyIdle
    /\ lpc = "lint"
    /\ lintIn \in LintDocs
    /\ lintOut = NoLint

(* lint(schema) *)
Analyze ==
    /\ lpc = "lint"
    /\ \E ord \in LintOrders : lintOut' = lint(lintIn, ord)
    /\ lpc' = "done"
    /\ UNCHANGED <<lintIn, pc, input, date, schema, errors, fieldsSet,
                   ruleVars, runs, firstOut, verifyVars>>

NextLint == Analyze

SpecLint == InitLint /\ [][NextLint]_vars

-----------------------------------------------------------------------------
(* Properties of lint. *)

LintDone == lpc = "done"

HasLintError(code) ==
    \E i \in 1..Len(lintOut.issues) :
        /\ lintOut.issues[i].code = code
        /\ lintOut.issues[i].severity = "error"

(* the derived fields other than m that the expression of m names in a var *)
RefersTo(S, m) == Refs(S.derived[m], S) \ {m}

(* some derived fields of S, each referring to the next and the last to    *)
(* the first                                                               *)
HasCycle(S) ==
    \E T \in SUBSET DOMAIN S.derived :
        /\ Cardinality(T) >= 2
        /\ \E p \in Perms(T) :
              \A i \in 1..Len(p) : p[(i % Len(p)) + 1] \in RefersTo(S, p[i])

(* C26: lint reports a derived_circular_dependency error, and so returns   *)
(* valid = false, exactly when the graph whose edges lead from a derived   *)
(* field to each other derived field its expression names in a var has a   *)
(* cycle.                                                                  *)
C26_CycleReportedIffCyclic ==
    LintDone =>
        /\ HasLintError("derived_circular_dependency") <=> HasCycle(lintIn)
        /\ HasLintError("derived_circular_dependency") => ~lintOut.valid

C26_Witness ==
    /\ LintDone
    /\ lintIn.derived = ("a" :> Op("+", <<V("b"), V("x")>>))
                          @@ ("b" :> Op("+", <<V("c"), V("b")>>))
                          @@ ("c" :> Op("+", <<V("a"), V("a")>>))
    /\ HasLintError("derived_circular_dependency")
    /\ ~lintOut.valid

====
